---- MODULE Spec2Model ----
(***************************************************************************)
(* firstlox: the expression front end of a tree-walk Lox interpreter.      *)
(* Spec follows one call of run (src/setup/compile.rs): a token vector,    *)
(* as Scanner::scan_tokens leaves it, is handed to Parser::new,            *)
(* Parser::parse builds the AST by recursive descent, AstPrinter renders   *)
(* it and Evaluator::interpret walks it.  SpecReport follows one call of   *)
(* LoxError::report_msg and SpecList a LoxErrorList under push and append  *)
(* (src/lox_error/lox_error.rs).  SpecPrompt follows run_prompt            *)
(* (src/setup/compile.rs) over the reads of standard input, each line      *)
(* read being handed to run as the token vector the scanner makes of it.   *)
(* SpecSync follows Parser::synchronize and SpecCursor single calls of the *)
(* parser's methods from any cursor (src/Parser/parser.rs); SpecScan       *)
(* follows Scanner::scan_tokens over a program text (src/scanner/mod.rs).  *)
(***************************************************************************)
EXTENDS Integers, Sequences, FiniteSets, TLC

VARIABLES
    tokens,       \* Parser.tokens: the token vector, Eof last
    current,      \* Parser.current: 0-based cursor into tokens
    errors,       \* Parser.errors: the parser's LoxErrorList
    expr_opt,     \* run's expr_opt: what Parser::parse returned
    printed,      \* the lines run has written for the AST
    evaluated,    \* what Evaluator::evaluate returned inside interpret
    interpreted,  \* number of calls of Evaluator::interpret made by run
    returned,     \* the LoxErrorList run returns
    pc,           \* position inside run
    err,          \* a LoxError, the self of report_msg
    rendered,     \* the String report_msg returned for err
    list,         \* a LoxErrorList under push and append: its errors vector
    calls,        \* the push and append calls made on list, in call order
    input,        \* what standard input holds when run_prompt starts
    stdin,        \* the part of input that run_prompt has not read yet
    console,      \* what run_prompt has written to standard output so far
    ran,          \* the lines run_prompt has handed to run, in order
    prompt_pc,    \* position inside run_prompt
    entered,      \* Parser.current when the parser method under way was entered
    source,       \* Scanner.source: the characters of the program text
    start,        \* Scanner.start: 0-based index of the lexeme being scanned
    scurrent,     \* Scanner.current: 0-based index of the next character
    sline,        \* Scanner.line
    stokens,      \* Scanner.tokens
    serrors,      \* Scanner.errors
    scanner_pc    \* position inside Scanner::scan_tokens

\* the state of one call of run
run_vars == <<tokens, current, errors, expr_opt, printed, evaluated, interpreted, returned, pc>>

\* the state of one call of LoxError::report_msg
report_vars == <<err, rendered>>

\* the state of a LoxErrorList and of its caller
list_vars == <<list, calls>>

\* the state of run_prompt
prompt_vars == <<input, stdin, console, ran, prompt_pc>>

\* the entry cursor of a parser method called for itself
cursor_vars == <<entered>>

\* the state of a Scanner
scanner_vars == <<source, start, scurrent, sline, stokens, serrors, scanner_pc>>

\* what a call of run leaves alone
outside_run == <<report_vars, list_vars, prompt_vars, cursor_vars, scanner_vars>>

vars == <<run_vars, report_vars, list_vars, prompt_vars, cursor_vars, scanner_vars>>

(***************************************************************************)
(* Bounds of the model.                                                    *)
(***************************************************************************)
\* longest token sequence (Eof not counted) enumerated over the whole alphabet
MaxLen == 3
\* longest chain of prefix operators enumerated in front of a primary
MaxChain == 3
\* highest source line of a diagnostic handed to report_msg
MaxLine == 3
\* most push and append calls made on one LoxErrorList
MaxCalls == 3
\* longest LoxErrorList handed to append
MaxAppended == 2
\* most reads of standard input that succeed or fail before end-of-input
MaxReads == 3
\* longest program text handed to the scanner, in characters
MaxSource == 4

(***************************************************************************)
(* Option<T>                                                               *)
(***************************************************************************)
None == [some |-> FALSE]

Some(v) == [some |-> TRUE, v |-> v]

(***************************************************************************)
(* scanner/token_type.rs, scanner/token.rs                                 *)
(***************************************************************************)
\* a TokenType value: the variant, and the payload of String and Number
TokenType(tt, s) == [tt |-> tt, s |-> s]

\* the variants without payload
TT(tt) == TokenType(tt, "")

\* TYPE_STRING: the canonical text of the payload-free variants
TYPE_STRING ==
    [LeftParen |-> "(", RightParen |-> ")", LeftBrace |-> "{", RightBrace |-> "}",
     Comma |-> ",", Dot |-> ".", Minus |-> "-", Plus |-> "+", Semicolon |-> ";",
     Slash |-> "/", Star |-> "*", Bang |-> "!", BangEqual |-> "!=", Equal |-> "=",
     EqualEqual |-> "==", Greater |-> ">", GreaterEqual |-> ">=", Less |-> "<",
     LessEqual |-> "<=", And |-> "and", Class |-> "class", Else |-> "else",
     False |-> "false", Fun |-> "fun", For |-> "for", If |-> "if", Nil |-> "nil",
     Or |-> "or", Return |-> "return", Super |-> "super", This |-> "this",
     True |-> "true", Var |-> "var", While |-> "while", Eof |-> "eof"]

to_stringslice(ttype) == TYPE_STRING[ttype.tt]

Token_new(ttype, lexeme, line) == [ttype |-> ttype, lexeme |-> lexeme, line |-> line]

(***************************************************************************)
(* The tokens the scanner builds (scanner/mod.rs), here on line 1; Lay     *)
(* below gives each token of an input its line.                            *)
(***************************************************************************)
\* Scanner::add_token_type
add_token_type(tt) == Token_new(TT(tt), to_stringslice(TT(tt)), 1)

\* Scanner::scan_number: the numeral text is both payload and lexeme
NumberToken(text) == Token_new(TokenType("Number", text), text, 1)

\* Scanner::scan_string: the payload is the text between the quotes
StringToken(text) == Token_new(TokenType("String", text), "\"" \o text \o "\"", 1)

\* Scanner::scan_tokens: the sentinel pushed after the loop
EofToken == Token_new(TT("Eof"), "", 1)

(***************************************************************************)
(* lox_error/lox_error.rs                                                  *)
(***************************************************************************)
LoxError_new(token, text) ==
    [token_option |-> Some(token), line_option |-> Some(token.line), text |-> text]

new_text_only(line_number, text) ==
    [token_option |-> None, line_option |-> line_number, text |-> text]

\* report_msg with no case for the end-of-input token
report_msg_lexeme_only(self) ==
    LET msg == IF self.token_option.some
               THEN "at '" \o self.token_option.v.lexeme \o "' - " \o self.text
               ELSE self.text
    IN  IF self.line_option.some
        THEN ToString(self.line_option.v) \o ": " \o msg
        ELSE msg

\* LoxError::report_msg
report_msg(self) ==
    LET msg == IF self.token_option.some
               THEN IF self.token_option.v.ttype.tt = "Eof"
                    THEN "at end - " \o self.text
                    ELSE "at '" \o self.token_option.v.lexeme \o "' - " \o self.text
               ELSE self.text
    IN  IF self.line_option.some
        THEN ToString(self.line_option.v) \o ": " \o msg
        ELSE msg

\* LoxErrorList::new
LoxErrorList_new == << >>

\* push putting the new item in front
push_front(self, error) == <<error>> \o self

\* LoxErrorList::push
push(self, error) == Append(self, error)

\* LoxErrorList::append: Vec::append moves the items of elst behind those of self
append(self, elst) == self \o elst

\* LoxErrorList::len
len(self) == Len(self)

(***************************************************************************)
(* Parser/parser.rs: the AST nodes built by build_structs!                 *)
(***************************************************************************)
binary_new(left, operator, right) ==
    [node |-> "binary", left |-> left, operator |-> operator, right |-> right]

grouping_new(expression) == [node |-> "grouping", expression |-> expression]

literal_new(value) == [node |-> "literal", value |-> value]

unary_new(operator, right) == [node |-> "unary", operator |-> operator, right |-> right]

(***************************************************************************)
(* Parser/parser.rs: the cursor primitives.  The Rust vector is 0-based,   *)
(* the TLA+ sequence 1-based: tokens[i] of the code is toks[i + 1].        *)
(***************************************************************************)
peek(toks, cur) == toks[cur + 1]

previous(toks, cur) == toks[cur]

is_at_end(toks, cur) == peek(toks, cur).ttype = TT("Eof")

\* std::mem::discriminant compares the variant and ignores the payload
check(toks, cur, tt) ==
    IF is_at_end(toks, cur) THEN FALSE ELSE peek(toks, cur).ttype.tt = tt

\* advance without the test for the end of the vector
advance_unchecked(toks, cur) == cur + 1

\* the cursor after Parser::advance
advance(toks, cur) == IF ~is_at_end(toks, cur) THEN cur + 1 ELSE cur

\* match_one_of! reporting a hit and leaving the cursor where it is
match_one_of_peeking(toks, cur, tts) ==
    [ret |-> \E i \in 1..Len(tts) : check(toks, cur, tts[i]), current |-> cur]

\* match_one_of!: the macro expands to one `if check { advance; ret = true }`
\* per listed type, run one after the other, none skipped after a hit
RECURSIVE match_one_of(_, _, _)
match_one_of(toks, cur, tts) ==
    IF tts = << >>
    THEN [ret |-> FALSE, current |-> cur]
    ELSE LET Rest(hit, rest) == [ret |-> hit \/ rest.ret, current |-> rest.current]
             If(hit) ==
                Rest(hit, match_one_of(toks, IF hit THEN advance(toks, cur) ELSE cur,
                                       Tail(tts)))
         IN  If(check(toks, cur, Head(tts)))

\* consume stepping over the current token when it is not the expected one
consume_skipping(toks, cur, errs, tt, msg) ==
    IF check(toks, cur, tt)
    THEN [current |-> advance(toks, cur), errors |-> errs]
    ELSE [current |-> advance(toks, cur),
          errors  |-> push(errs, new_text_only(Some(peek(toks, cur).line), msg))]

\* Parser::consume: the cursor and the list after the call
consume(toks, cur, errs, tt, msg) ==
    IF check(toks, cur, tt)
    THEN [current |-> advance(toks, cur), errors |-> errs]
    ELSE [current |-> cur,
          errors  |-> push(errs, new_text_only(Some(peek(toks, cur).line), msg))]

(***************************************************************************)
(* Parser/parser.rs: the grammar rules.  Each rule takes the cursor and    *)
(* the diagnostic list on entry and returns the node it built with the     *)
(* cursor and the list on exit.  A `while match_one_of!` loop is the       *)
(* *_loop operator applied to the running expression.  A `let x = e;` of   *)
(* the code is a local operator applied to e, with x its parameter.  The   *)
(* code runs `let x = self.rule();` to its end before the next statement;  *)
(* the test x.current >= 0 (current is a usize) keeps that order in the    *)
(* evaluation.                                                             *)
(***************************************************************************)
RECURSIVE expression(_, _, _)
RECURSIVE equality(_, _, _)
RECURSIVE equality_loop(_, _)
RECURSIVE comparison(_, _, _)
RECURSIVE comparison_loop(_, _)
RECURSIVE term(_, _, _)
RECURSIVE term_loop(_, _)
RECURSIVE factor(_, _, _)
RECURSIVE factor_loop(_, _)
RECURSIVE unary(_, _, _)
RECURSIVE primary(_, _, _)

Returned(expr, cur, errs) == [expr |-> expr, current |-> cur, errors |-> errs]

expression(toks, cur, errs) == equality(toks, cur, errs)

equality(toks, cur, errs) ==
    LET Loop(expr) == IF expr.current >= 0 THEN equality_loop(toks, expr) ELSE expr
    IN  Loop(comparison(toks, cur, errs))

equality_loop(toks, st) ==
    LET Wrap(operator, right) ==
            IF right.current >= 0
            THEN equality_loop(toks, Returned(binary_new(st.expr, operator, right.expr),
                                 right.current, right.errors))
            ELSE right
        While(m) ==
            IF m.ret
            THEN Wrap(previous(toks, m.current), comparison(toks, m.current, st.errors))
            ELSE st
    IN  While(match_one_of(toks, st.current,
                           <<"BangEqual", "EqualEqual">>))

comparison(toks, cur, errs) ==
    LET Loop(expr) == IF expr.current >= 0 THEN comparison_loop(toks, expr) ELSE expr
    IN  Loop(term(toks, cur, errs))

comparison_loop(toks, st) ==
    LET Wrap(operator, right) ==
            IF right.current >= 0
            THEN comparison_loop(toks, Returned(binary_new(st.expr, operator, right.expr),
                                 right.current, right.errors))
            ELSE right
        While(m) ==
            IF m.ret
            THEN Wrap(previous(toks, m.current), term(toks, m.current, st.errors))
            ELSE st
    IN  While(match_one_of(toks, st.current,
                           <<"Greater", "GreaterEqual", "Less", "LessEqual">>))

term(toks, cur, errs) ==
    LET Loop(expr) == IF expr.current >= 0 THEN term_loop(toks, expr) ELSE expr
    IN  Loop(factor(toks, cur, errs))

\* term's loop with the right operand parsed by term itself: the operand takes
\* the rest of the level and the operators group to the right
term_loop_right_operand_term(toks, st) ==
    LET Wrap(operator, right) ==
            IF right.current >= 0
            THEN Returned(binary_new(st.expr, operator, right.expr),
                          right.current, right.errors)
            ELSE right
        While(m) ==
            IF m.ret
            THEN Wrap(previous(toks, m.current), term(toks, m.current, st.errors))
            ELSE st
    IN  While(match_one_of(toks, st.current,
                           <<"Minus", "Plus">>))

term_loop(toks, st) ==
    LET Wrap(operator, right) ==
            IF right.current >= 0
            THEN term_loop(toks, Returned(binary_new(st.expr, operator, right.expr),
                                 right.current, right.errors))
            ELSE right
        While(m) ==
            IF m.ret
            THEN Wrap(previous(toks, m.current), factor(toks, m.current, st.errors))
            ELSE st
    IN  While(match_one_of(toks, st.current,
                           <<"Minus", "Plus">>))

factor(toks, cur, errs) ==
    LET Loop(expr) == IF expr.current >= 0 THEN factor_loop(toks, expr) ELSE expr
    IN  Loop(unary(toks, cur, errs))

factor_loop(toks, st) ==
    LET Wrap(operator, right) ==
            IF right.current >= 0
            THEN factor_loop(toks, Returned(binary_new(st.expr, operator, right.expr),
                                 right.current, right.errors))
            ELSE right
        While(m) ==
            IF m.ret
            THEN Wrap(previous(toks, m.current), unary(toks, m.current, st.errors))
            ELSE st
    IN  While(match_one_of(toks, st.current,
                           <<"Slash", "Star">>))

\* unary taking + as a prefix operator as well
unary_plus_prefix(toks, cur, errs) ==
    LET Wrap(operator, right) ==
            IF right.current >= 0
            THEN Returned(unary_new(operator, right.expr), right.current, right.errors)
            ELSE right
        If(m) ==
            IF m.ret
            THEN Wrap(previous(toks, m.current), unary(toks, m.current, errs))
            ELSE primary(toks, cur, errs)
    IN  If(match_one_of(toks, cur, <<"Bang", "Minus", "Plus">>))

\* unary -> ( "!" | "-" ) unary | primary
unary(toks, cur, errs) ==
    LET Wrap(operator, right) ==
            IF right.current >= 0
            THEN Returned(unary_new(operator, right.expr), right.current, right.errors)
            ELSE right
        If(m) ==
            IF m.ret
            THEN Wrap(previous(toks, m.current), unary(toks, m.current, errs))
            ELSE primary(toks, cur, errs)
    IN  If(match_one_of(toks, cur, <<"Bang", "Minus">>))

\* primary stepping over the token it does not know
primary_consuming(toks, cur, errs) ==
    LET Close(expr, c) == Returned(grouping_new(expr.expr), c.current, c.errors)
        Group(expr) ==
            IF expr.current >= 0
            THEN Close(expr, consume(toks, expr.current, expr.errors, "RightParen",
                                     "Expect ')' after expression."))
            ELSE expr
        IfParen(m2) ==
            IF m2.ret
            THEN Group(expression(toks, m2.current, errs))
            ELSE Returned(literal_new(TT("Eof")), advance(toks, cur),
                          push(errs, LoxError_new(peek(toks, cur), "Invalid Token")))
        IfLiteral(m1) ==
            IF m1.ret
            THEN Returned(literal_new(previous(toks, m1.current).ttype), m1.current, errs)
            ELSE IfParen(match_one_of(toks, cur, <<"LeftParen">>))
    IN  IfLiteral(match_one_of(toks, cur, <<"False", "True", "Nil", "Number", "String">>))

primary(toks, cur, errs) ==
    LET Close(expr, c) == Returned(grouping_new(expr.expr), c.current, c.errors)
        Group(expr) ==
            IF expr.current >= 0
            THEN Close(expr, consume(toks, expr.current, expr.errors, "RightParen",
                                     "Expect ')' after expression."))
            ELSE expr
        IfParen(m2) ==
            IF m2.ret
            THEN Group(expression(toks, m2.current, errs))
            ELSE Returned(literal_new(TT("Eof")), cur,
                          push(errs, LoxError_new(peek(toks, cur), "Invalid Token")))
        IfLiteral(m1) ==
            IF m1.ret
            THEN Returned(literal_new(previous(toks, m1.current).ttype), m1.current, errs)
            ELSE IfParen(match_one_of(toks, cur, <<"LeftParen">>))
    IN  IfLiteral(match_one_of(toks, cur, <<"False", "True", "Nil", "Number", "String">>))

\* Parser::parse without the test of the list: the tree is returned always
parse_unchecked(toks, cur, errs) ==
    LET Result(result) ==
            [ret     |-> Some(result.expr),
             current |-> result.current,
             errors  |-> result.errors]
    IN  Result(expression(toks, cur, errs))

\* Parser::parse: the Option returned, with the parser's fields afterwards
parse(toks, cur, errs) ==
    LET Result(result) ==
            [ret     |-> IF len(result.errors) = 0 THEN Some(result.expr) ELSE None,
             current |-> result.current,
             errors  |-> result.errors]
    IN  Result(expression(toks, cur, errs))

(***************************************************************************)
(* f64.  A finite value is kept as the exact fraction s * n / d in lowest  *)
(* terms with a separate sign, so that -0.0 exists; inf and NaN are their  *)
(* own classes.  With the numerals of the model every finite result whose  *)
(* denominator is a power of two is the f64 result exactly; a denominator  *)
(* with a factor 3 stands for the f64 nearest to the fraction.             *)
(***************************************************************************)
RECURSIVE GCD(_, _)
GCD(a, b) == IF b = 0 THEN a ELSE GCD(b, a % b)

Fin(s, n, d) == LET g == GCD(n, d) IN [k |-> "fin", s |-> s, n |-> n \div g, d |-> d \div g]

Inf(s) == [k |-> "inf", s |-> s, n |-> 0, d |-> 1]

NaN == [k |-> "nan", s |-> 1, n |-> 0, d |-> 1]

IsZero(x) == x.k = "fin" /\ x.n = 0

Abs(i) == IF i < 0 THEN -i ELSE i

\* unary minus on f64
F64Neg(x) == IF x.k = "nan" THEN NaN ELSE [x EXCEPT !.s = -x.s]

\* + on f64
F64Add(a, b) ==
    CASE a.k = "nan" \/ b.k = "nan" -> NaN
      [] a.k = "inf" /\ b.k = "inf" -> IF a.s = b.s THEN a ELSE NaN
      [] a.k = "inf" -> a
      [] b.k = "inf" -> b
      [] OTHER ->
            LET x == a.s * a.n * b.d + b.s * b.n * a.d IN
            IF x = 0
            THEN Fin(IF a.s = -1 /\ b.s = -1 THEN -1 ELSE 1, 0, 1)
            ELSE Fin(IF x < 0 THEN -1 ELSE 1, Abs(x), a.d * b.d)

\* - on f64
F64Sub(a, b) == F64Add(a, F64Neg(b))

\* * on f64
F64Mul(a, b) ==
    CASE a.k = "nan" \/ b.k = "nan" -> NaN
      [] (a.k = "inf" /\ IsZero(b)) \/ (IsZero(a) /\ b.k = "inf") -> NaN
      [] a.k = "inf" \/ b.k = "inf" -> Inf(a.s * b.s)
      [] OTHER -> Fin(a.s * b.s, a.n * b.n, a.d * b.d)

\* / on f64: a zero divisor gives inf or NaN, never an error
F64Div(a, b) ==
    CASE a.k = "nan" \/ b.k = "nan" -> NaN
      [] a.k = "inf" /\ b.k = "inf" -> NaN
      [] a.k = "inf" -> Inf(a.s * b.s)
      [] b.k = "inf" -> Fin(a.s * b.s, 0, 1)
      [] IsZero(b) -> IF IsZero(a) THEN NaN ELSE Inf(a.s * b.s)
      [] OTHER -> Fin(a.s * b.s, a.n * b.d, a.d * b.n)

\* < on f64: false as soon as one side is NaN
F64Lt(a, b) ==
    CASE a.k = "nan" \/ b.k = "nan" -> FALSE
      [] a.k = "inf" -> a.s = -1 /\ ~(b.k = "inf" /\ b.s = -1)
      [] b.k = "inf" -> b.s = 1
      [] OTHER -> a.s * a.n * b.d < b.s * b.n * a.d

F64Gt(a, b) == F64Lt(b, a)

\* == on f64 as identity of the two values: NaN equal to itself
F64Eq_identical(a, b) == a = b \/ (IsZero(a) /\ IsZero(b))

\* == on f64: NaN equals nothing, -0.0 equals 0.0
F64Eq(a, b) == a.k # "nan" /\ b.k # "nan" /\ ~F64Lt(a, b) /\ ~F64Lt(b, a)

F64Le(a, b) == F64Lt(a, b) \/ F64Eq(a, b)

F64Ge(a, b) == F64Lt(b, a) \/ F64Eq(a, b)

\* the numerals the scanner passes on as Number payloads in this model
Numerals == <<"0", "1", "2", "3">>

\* number texts with a decimal point, each with the fraction it denotes
Decimals ==
    <<[text |-> "1.0", n |-> 1, d |-> 1],
      [text |-> "2.5", n |-> 5, d |-> 2],
      [text |-> "45.67", n |-> 4567, d |-> 100]>>

\* str::parse::<f64> on a number text of the scanner
parse_f64(s) ==
    IF \E i \in 1..Len(Numerals) : Numerals[i] = s
    THEN Fin(1, (CHOOSE i \in 1..Len(Numerals) : Numerals[i] = s) - 1, 1)
    ELSE LET r == Decimals[CHOOSE i \in 1..Len(Decimals) : Decimals[i].text = s]
         IN  Fin(1, r.n, r.d)

(***************************************************************************)
(* Parser/evaluate.rs: runtime values and results.                         *)
(***************************************************************************)
\* enum LoxType
LoxNil == [t |-> "Nil"]

LoxBool(b) == [t |-> "Bool", b |-> b]

LoxNumber(n) == [t |-> "Number", n |-> n]

LoxString(s) == [t |-> "String", s |-> s]

\* ParseReturn::Val and ParseReturn::PP
Val(v) == [pr |-> "Val", val |-> v]

PP(s) == [pr |-> "PP", val |-> s]

\* Result<T, LoxError>, and a panic that unwinds through every caller
Ok(v) == [tag |-> "Ok", val |-> v]

Err(e) == [tag |-> "Err", val |-> e]

Panic(msg) == [tag |-> "Panic", val |-> msg]

to_lox_type(tt) ==
    CASE tt.tt = "Number" -> Ok(LoxNumber(parse_f64(tt.s)))
      [] tt.tt = "String" -> Ok(LoxString(tt.s))
      [] tt.tt = "False"  -> Ok(LoxBool(FALSE))
      [] tt.tt = "True"   -> Ok(LoxBool(TRUE))
      [] tt.tt = "Nil"    -> Ok(LoxNil)
      [] OTHER            -> Panic("Unexpected val in to_lox_type")

to_lox_name(val) ==
    CASE val.t = "Nil"    -> "nil"
      [] val.t = "Bool"   -> "bool"
      [] val.t = "Number" -> "number"
      [] val.t = "String" -> "string"

get_number(pr, token) ==
    CASE pr.pr = "Val" /\ pr.val.t = "Number" -> Ok(pr.val.n)
      [] pr.pr = "Val" ->
            Err(LoxError_new(token, "Expected number but found " \o to_lox_name(pr.val)))
      [] OTHER -> Panic("No LoxType in eval")

\* get_bool with a truthiness coercion: nil is false, every other value true
get_bool_truthy(pr, token) ==
    CASE pr.pr = "Val" /\ pr.val.t = "Bool" -> Ok(pr.val.b)
      [] pr.pr = "Val" -> Ok(pr.val.t # "Nil")
      [] OTHER -> Panic("No LoxType in eval")

get_bool(pr, token) ==
    CASE pr.pr = "Val" /\ pr.val.t = "Bool" -> Ok(pr.val.b)
      [] pr.pr = "Val" ->
            Err(LoxError_new(token, "Expected bool but found " \o to_lox_name(pr.val)))
      [] OTHER -> Panic("No LoxType in eval")

get_string(pr, token) ==
    CASE pr.pr = "Val" /\ pr.val.t = "String" -> Ok(pr.val.s)
      [] pr.pr = "Val" ->
            Err(LoxError_new(token, "Expected string but found " \o to_lox_name(pr.val)))
      [] OTHER -> Panic("No LoxType in eval")

\* the three get_*_values helpers: left first, `?` returns its failure at once
\* get_numeric_values testing the right operand before the left one
get_numeric_values_right_first(left, right, token) ==
    LET right_val == get_number(right, token) IN
    IF right_val.tag # "Ok" THEN right_val
    ELSE LET left_val == get_number(left, token) IN
         IF left_val.tag # "Ok" THEN left_val
         ELSE Ok(<<left_val.val, right_val.val>>)

get_numeric_values(left, right, token) ==
    LET left_val == get_number(left, token) IN
    IF left_val.tag # "Ok" THEN left_val
    ELSE LET right_val == get_number(right, token) IN
         IF right_val.tag # "Ok" THEN right_val
         ELSE Ok(<<left_val.val, right_val.val>>)

get_string_values(left, right, token) ==
    LET left_val == get_string(left, token) IN
    IF left_val.tag # "Ok" THEN left_val
    ELSE LET right_val == get_string(right, token) IN
         IF right_val.tag # "Ok" THEN right_val
         ELSE Ok(<<left_val.val, right_val.val>>)

get_bool_values(left, right, token) ==
    LET left_val == get_bool(left, token) IN
    IF left_val.tag # "Ok" THEN left_val
    ELSE LET right_val == get_bool(right, token) IN
         IF right_val.tag # "Ok" THEN right_val
         ELSE Ok(<<left_val.val, right_val.val>>)

is_nil(pr) == pr = Val(LoxNil)

is_numeric(pr) == pr.pr = "Val" /\ pr.val.t = "Number"

is_string(pr) == pr.pr = "Val" /\ pr.val.t = "String"

is_bool(pr) == pr.pr = "Val" /\ pr.val.t = "Bool"

\* is_equal without the early `return Ok(false)` on operands of two variants
is_equal_same_variant_only(left, right, token) ==
    CASE is_numeric(left) ->
            LET p == get_numeric_values(left, right, token) IN
            IF p.tag # "Ok" THEN p ELSE Ok(F64Eq(p.val[1], p.val[2]))
      [] is_string(left) ->
            LET p == get_string_values(left, right, token) IN
            IF p.tag # "Ok" THEN p ELSE Ok(p.val[1] = p.val[2])
      [] is_bool(left) ->
            LET p == get_bool_values(left, right, token) IN
            IF p.tag # "Ok" THEN p ELSE Ok(p.val[1] = p.val[2])
      [] OTHER ->
            IF is_nil(left) /\ is_nil(right) THEN Ok(TRUE)
            ELSE Panic("Equals didn't handle all cases")

is_equal(left, right, token) ==
    CASE is_numeric(left) ->
            IF ~is_numeric(right) THEN Ok(FALSE)
            ELSE LET p == get_numeric_values(left, right, token) IN
                 IF p.tag # "Ok" THEN p ELSE Ok(F64Eq(p.val[1], p.val[2]))
      [] is_string(left) ->
            IF ~is_string(right) THEN Ok(FALSE)
            ELSE LET p == get_string_values(left, right, token) IN
                 IF p.tag # "Ok" THEN p ELSE Ok(p.val[1] = p.val[2])
      [] is_bool(left) ->
            IF ~is_bool(right) THEN Ok(FALSE)
            ELSE LET p == get_bool_values(left, right, token) IN
                 IF p.tag # "Ok" THEN p ELSE Ok(p.val[1] = p.val[2])
      [] OTHER ->
            LET is_nil_left  == is_nil(left)
                is_nil_right == is_nil(right)
            IN  CASE is_nil_left /\ is_nil_right -> Ok(TRUE)
                  [] is_nil_left \/ is_nil_right -> Ok(FALSE)
                  [] OTHER -> Panic("Equals didn't handle all cases")

(***************************************************************************)
(* Parser/evaluate.rs: impl Visitor for Evaluator.  A result carries, next *)
(* to its tag and value, the number of accept calls made to produce it.    *)
(***************************************************************************)
Visited(r, n) == [tag |-> r.tag, val |-> r.val, visits |-> n]

\* `let x = r?; Ok(ParseReturn::Val(v))`: the failure of r, or the value v
Try(r, v) == IF r.tag # "Ok" THEN r ELSE Ok(Val(v))

\* the Plus arm falling back on the numeric rule for operands of mixed types
plus_arm_numeric_fallback(left, right, token) ==
    IF is_string(left) /\ is_string(right)
    THEN LET p == get_string_values(left, right, token) IN
         Try(p, LoxString(p.val[1] \o p.val[2]))
    ELSE LET n == get_numeric_values(left, right, token) IN
         Try(n, LoxNumber(F64Add(n.val[1], n.val[2])))

\* the TokenType::Plus arm of Evaluator::binary
plus_arm(left, right, token) ==
    IF is_numeric(left) /\ is_numeric(right)
    THEN LET n == get_numeric_values(left, right, token) IN
         Try(n, LoxNumber(F64Add(n.val[1], n.val[2])))
    ELSE IF is_string(left) /\ is_string(right)
    THEN LET p == get_string_values(left, right, token) IN
         Try(p, LoxString(p.val[1] \o p.val[2]))
    ELSE Err(LoxError_new(token, "Mismatched types"))

\* the TokenType::EqualEqual and TokenType::BangEqual arms of Evaluator::binary
equal_arm(left, right, token, negate) ==
    LET e == is_equal(left, right, token) IN
    Try(e, LoxBool(IF negate THEN ~e.val ELSE e.val))

\* Evaluator::binary after both operands evaluated: the match on the operator
binary_op(left, right, token) ==
    LET n == get_numeric_values(left, right, token) IN
    CASE token.ttype.tt = "Minus" -> Try(n, LoxNumber(F64Sub(n.val[1], n.val[2])))
      [] token.ttype.tt = "Slash" -> Try(n, LoxNumber(F64Div(n.val[1], n.val[2])))
      [] token.ttype.tt = "Star"  -> Try(n, LoxNumber(F64Mul(n.val[1], n.val[2])))
      [] token.ttype.tt = "Plus"  -> plus_arm(left, right, token)
      [] token.ttype.tt = "Greater"      -> Try(n, LoxBool(F64Gt(n.val[1], n.val[2])))
      [] token.ttype.tt = "Less"         -> Try(n, LoxBool(F64Lt(n.val[1], n.val[2])))
      [] token.ttype.tt = "GreaterEqual" -> Try(n, LoxBool(F64Ge(n.val[1], n.val[2])))
      [] token.ttype.tt = "LessEqual"    -> Try(n, LoxBool(F64Le(n.val[1], n.val[2])))
      [] token.ttype.tt = "EqualEqual"   -> equal_arm(left, right, token, FALSE)
      [] token.ttype.tt = "BangEqual"    -> equal_arm(left, right, token, TRUE)
      [] OTHER -> Panic("Unhandled operator in binary")

\* Evaluator::unary after the operand evaluated: the match on the operator
unary_op(right, token) ==
    CASE token.ttype.tt = "Minus" ->
            LET right_val == get_number(right, token) IN
            Try(right_val, LoxNumber(F64Neg(right_val.val)))
      [] token.ttype.tt = "Bang" ->
            LET right_val == get_bool(right, token) IN
            Try(right_val, LoxBool(~right_val.val))
      [] OTHER -> Panic("Unary with invalid operation in Eval")

RECURSIVE evaluate(_)
RECURSIVE Evaluator_grouping(_)
RECURSIVE Evaluator_unary(_)
RECURSIVE Evaluator_binary(_)

\* Visitor::literal of the Evaluator
Evaluator_literal(expr) ==
    LET v == to_lox_type(expr.value) IN
    IF v.tag # "Ok" THEN Visited(v, 1) ELSE Visited(Ok(Val(v.val)), 1)

\* Visitor::grouping of the Evaluator
Evaluator_grouping(expr) ==
    LET inner == evaluate(expr.expression) IN
    Visited(inner, inner.visits + 1)

\* Visitor::unary of the Evaluator: `?` returns the operand's failure at once
Evaluator_unary(expr) ==
    LET right == evaluate(expr.right) IN
    IF right.tag # "Ok" THEN Visited(right, right.visits + 1)
    ELSE Visited(unary_op(right.val, expr.operator), right.visits + 1)

\* Visitor::binary evaluating the right operand before the left one
Evaluator_binary_right_first(expr) ==
    LET right == evaluate(expr.right) IN
    IF right.tag # "Ok" THEN Visited(right, right.visits + 1)
    ELSE LET left == evaluate(expr.left) IN
         IF left.tag # "Ok"
         THEN Visited(left, left.visits + right.visits + 1)
         ELSE Visited(binary_op(left.val, right.val, expr.operator),
                      left.visits + right.visits + 1)

\* Visitor::binary of the Evaluator: left, then right, each under `?`
Evaluator_binary(expr) ==
    LET left == evaluate(expr.left) IN
    IF left.tag # "Ok" THEN Visited(left, left.visits + 1)
    ELSE LET right == evaluate(expr.right) IN
         IF right.tag # "Ok"
         THEN Visited(right, left.visits + right.visits + 1)
         ELSE Visited(binary_op(left.val, right.val, expr.operator),
                      left.visits + right.visits + 1)

\* Evaluator::evaluate: accept dispatches on the node kind
evaluate(expr) ==
    CASE expr.node = "literal"  -> Evaluator_literal(expr)
      [] expr.node = "grouping" -> Evaluator_grouping(expr)
      [] expr.node = "unary"    -> Evaluator_unary(expr)
      [] expr.node = "binary"   -> Evaluator_binary(expr)

\* Evaluator::interpret: the list returned, or the panic
interpret(expr) ==
    LET eval_result == evaluate(expr)
        ret         == LoxErrorList_new
    IN  CASE eval_result.tag = "Err" -> Ok(push(ret, eval_result.val))
          [] eval_result.tag = "Ok" ->
                IF eval_result.val.pr = "Val" THEN Ok(ret)
                ELSE Panic("PR type other than Val from eval")
          [] OTHER -> Panic(eval_result.val)

(***************************************************************************)
(* Parser/pretty_print.rs                                                  *)
(***************************************************************************)
\* the digits behind the decimal point of r / d, r < d, d a divisor of a
\* power of ten
RECURSIVE FractionDigits(_, _)
FractionDigits(r, d) ==
    IF r = 0 THEN ""
    ELSE ToString((r * 10) \div d) \o FractionDigits((r * 10) % d, d)

\* Display of an f64 that holds an integer, a short decimal fraction, an
\* infinity or NaN
fmt_f64(x) ==
    CASE x.k = "nan" -> "NaN"
      [] x.k = "inf" -> IF x.s = -1 THEN "-inf" ELSE "inf"
      [] x.k = "fin" /\ x.d = 1 -> (IF x.s = -1 THEN "-" ELSE "") \o ToString(x.n)
      [] OTHER -> (IF x.s = -1 THEN "-" ELSE "") \o ToString(x.n \div x.d)
                     \o "." \o FractionDigits(x.n % x.d, x.d)

RECURSIVE AstPrinter_accept(_)

\* Visitor::literal of the AstPrinter
AstPrinter_literal(expr) ==
    CASE expr.value.tt = "Number" -> fmt_f64(parse_f64(expr.value.s))
      [] expr.value.tt = "String" -> "\"" \o expr.value.s \o "\""
      [] OTHER -> "Non-Literal TokenType in Pretty Print"

\* parenthesize! rendering its arguments last to first
RECURSIVE parenthesize(_, _)
RECURSIVE parenthesize_last_first(_, _)
parenthesize_last_first(name, args) ==
    IF args = << >> THEN "(" \o name
    ELSE parenthesize_last_first(name, Tail(args)) \o " " \o AstPrinter_accept(Head(args))

\* parenthesize!: "(" name, then " " and the rendering of each argument, ")"
parenthesize(name, args) ==
    IF args = << >> THEN "(" \o name
    ELSE parenthesize(name, SubSeq(args, 1, Len(args) - 1))
             \o " " \o AstPrinter_accept(args[Len(args)])

\* accept on the AstPrinter: Visitor::binary, grouping, literal, unary
AstPrinter_accept(expr) ==
    CASE expr.node = "binary" ->
            parenthesize(expr.operator.lexeme, <<expr.left, expr.right>>) \o ")"
      [] expr.node = "grouping" -> parenthesize("group", <<expr.expression>>) \o ")"
      [] expr.node = "literal"  -> AstPrinter_literal(expr)
      [] expr.node = "unary" ->
            parenthesize(expr.operator.lexeme, <<expr.right>>) \o ")"

\* AstPrinter::pretty_print_value
pretty_print_value(expr) == AstPrinter_accept(expr)

(***************************************************************************)
(* The token vectors handed to Parser::new.  Token i stands on source line *)
(* i, as when the program text has one token per line; Scanner::scan_tokens*)
(* then puts Eof on the line of the last token.                            *)
(***************************************************************************)
Lay(toks) ==
    [i \in 1..(Len(toks) + 1) |->
        IF i <= Len(toks)
        THEN Token_new(toks[i].ttype, toks[i].lexeme, i)
        ELSE Token_new(TT("Eof"), "", IF Len(toks) = 0 THEN 1 ELSE Len(toks))]

UnaryOps == {add_token_type("Bang"), add_token_type("Minus")}

BinaryOps ==
    {add_token_type(tt) : tt \in {"Minus", "Plus", "Slash", "Star", "Greater",
                                  "GreaterEqual", "Less", "LessEqual",
                                  "EqualEqual", "BangEqual"}}

\* every literal token of the model
Literals ==
    {NumberToken(Numerals[i]) : i \in 1..Len(Numerals)}
        \cup {StringToken(s) : s \in {"a", "b", "1"}}
        \cup {add_token_type(tt) : tt \in {"True", "False", "Nil"}}

\* one literal token of each runtime type, and three different numbers
FewLiterals ==
    {NumberToken("1"), NumberToken("2"), NumberToken("3"), StringToken("a"),
     add_token_type("True"), add_token_type("Nil")}

\* the alphabet of the exhaustive part: every token kind the grammar knows,
\* one kind it does not know, one payload per literal kind
Alphabet ==
    UnaryOps \cup BinaryOps
        \cup {add_token_type(tt) : tt \in {"LeftParen", "RightParen", "Semicolon",
                                           "True", "False", "Nil"}}
        \cup {NumberToken("1"), StringToken("a")}

\* every token sequence of at most MaxLen tokens over the alphabet
ShortSeqs == UNION {[1..n -> Alphabet] : n \in 0..MaxLen}

\* a op b
Pairs == {<<a, op, b>> : a \in Literals, op \in BinaryOps, b \in Literals}

\* a op1 b op2 c
Triples ==
    {<<a, op1, b, op2, c>> :
        a \in FewLiterals, op1 \in BinaryOps, b \in FewLiterals,
        op2 \in BinaryOps, c \in FewLiterals}

\* n prefix operators, n <= MaxChain, in front of a literal
UnaryChains ==
    {ops \o <<a>> : ops \in UNION {[1..n -> UnaryOps] : n \in 1..MaxChain},
                    a \in Literals}

\* u a op v b: a binary operator over two unary operands
UnaryPairs ==
    {<<u, a, op, v, b>> :
        u \in UnaryOps, a \in FewLiterals, op \in BinaryOps,
        v \in UnaryOps, b \in FewLiterals}

\* a / b op c / d over 0 and 1, op an equality operator
QuotientPairs ==
    {<<a, add_token_type("Slash"), b, op, c, add_token_type("Slash"), d>> :
        a \in {NumberToken("0"), NumberToken("1")},
        b \in {NumberToken("0"), NumberToken("1")},
        op \in {add_token_type("EqualEqual"), add_token_type("BangEqual")},
        c \in {NumberToken("0"), NumberToken("1")},
        d \in {NumberToken("0"), NumberToken("1")}}

\* ( a op b with and without the closing parenthesis
Groups ==
    {<<add_token_type("LeftParen"), a, op, b>> \o close :
        a \in FewLiterals, op \in BinaryOps, b \in FewLiterals,
        close \in {<< >>, <<add_token_type("RightParen")>>}}

\* two `(` with no `)`: ( ( a op b, ( a op ( b and ( a ( b
TwoOpen ==
    UNION {{<<add_token_type("LeftParen"), add_token_type("LeftParen"), a, op, b>>,
            <<add_token_type("LeftParen"), a, op, add_token_type("LeftParen"), b>>,
            <<add_token_type("LeftParen"), a, add_token_type("LeftParen"), b>>} :
              a \in FewLiterals, op \in BinaryOps, b \in FewLiterals}

\* u a op ( b ) over numbers written with and without a decimal point
UnaryTimesGroup ==
    {<<u, a, op, add_token_type("LeftParen"), b, add_token_type("RightParen")>> :
        u \in UnaryOps, a \in {NumberToken("1"), NumberToken("2.5")}, op \in BinaryOps,
        b \in {NumberToken("2"), NumberToken("1.0"), NumberToken("45.67")}}

Inputs ==
    {Lay(s) : s \in ShortSeqs \cup Pairs \cup Triples \cup UnaryChains \cup UnaryPairs
                    \cup QuotientPairs \cup Groups \cup TwoOpen \cup UnaryTimesGroup}

(***************************************************************************)
(* setup/compile.rs: run, from Parser::new on.                             *)
(***************************************************************************)
\* no call of run under way
RunIdle ==
    /\ tokens = << >>
    /\ current = 0
    /\ errors = LoxErrorList_new
    /\ expr_opt = None
    /\ printed = << >>
    /\ evaluated = None
    /\ interpreted = 0
    /\ returned = None
    /\ pc = "idle"

\* no call of report_msg under way
ReportIdle == err = None /\ rendered = None

\* no LoxErrorList under test
ListIdle == list = LoxErrorList_new /\ calls = << >>

\* no run_prompt under way
PromptIdle ==
    /\ input = << >>
    /\ stdin = << >>
    /\ console = << >>
    /\ ran = << >>
    /\ prompt_pc = "idle"

\* no parser method called for itself
CursorIdle == entered = None

\* no scanner built
ScannerIdle ==
    /\ source = << >>
    /\ start = 0
    /\ scurrent = 0
    /\ sline = 1
    /\ stokens = << >>
    /\ serrors = << >>
    /\ scanner_pc = "idle"

OutsideRunIdle == ReportIdle /\ ListIdle /\ PromptIdle /\ CursorIdle /\ ScannerIdle

\* Parser::new(scanner.get_tokens())
Init ==
    /\ tokens \in Inputs
    /\ current = 0
    /\ errors = LoxErrorList_new
    /\ expr_opt = None
    /\ printed = << >>
    /\ evaluated = None
    /\ interpreted = 0
    /\ returned = None
    /\ pc = "parse"
    /\ OutsideRunIdle

\* let expr_opt = parser.parse()
Parse ==
    /\ pc = "parse"
    /\ LET Assign(r) ==
                /\ current' = r.current
                /\ errors' = r.errors
                /\ expr_opt' = r.ret
       IN  Assign(parse(tokens, current, errors))
    /\ pc' = "match"
    /\ UNCHANGED <<tokens, printed, evaluated, interpreted, returned>>
    /\ UNCHANGED outside_run

\* run's None arm returning a fresh list in place of parser.errors
RunNone_fresh_list ==
    /\ pc = "match"
    /\ ~expr_opt.some
    /\ returned' = Some(LoxErrorList_new)
    /\ pc' = "done"
    /\ UNCHANGED <<tokens, current, errors, expr_opt, printed, evaluated, interpreted>>
    /\ UNCHANGED outside_run

\* None => parser.errors
RunNone ==
    /\ pc = "match"
    /\ ~expr_opt.some
    /\ returned' = Some(errors)
    /\ pc' = "done"
    /\ UNCHANGED <<tokens, current, errors, expr_opt, printed, evaluated, interpreted>>
    /\ UNCHANGED outside_run

\* Some(ast) => print the tree, then interpret it if the list is empty
RunSome ==
    /\ pc = "match"
    /\ expr_opt.some
    /\ printed' = Append(printed, pretty_print_value(expr_opt.v))
    /\ IF len(errors) = 0
       THEN LET Return(r) ==
                    /\ returned' = (IF r.tag = "Ok" THEN Some(r.val) ELSE None)
                    /\ pc' = (IF r.tag = "Ok" THEN "done" ELSE "panic")
            IN  /\ interpreted' = interpreted + 1
                /\ evaluated' = Some(evaluate(expr_opt.v))
                /\ Return(interpret(expr_opt.v))
       ELSE /\ returned' = Some(errors)
            /\ pc' = "done"
            /\ UNCHANGED <<evaluated, interpreted>>
    /\ UNCHANGED <<tokens, current, errors, expr_opt>>
    /\ UNCHANGED outside_run

Next == Parse \/ RunNone \/ RunSome

Spec == Init /\ [][Next]_vars

(***************************************************************************)
(* lox_error/lox_error.rs: one call of LoxError::report_msg on a           *)
(* diagnostic built by one of the two constructors.                        *)
(***************************************************************************)
\* the messages of the parser and the evaluator, and the empty one
Texts == {"Invalid Token", "Expect ')' after expression.", "Mismatched types", ""}

\* tokens to attach: every kind of the alphabet, Eof, and the `&` of error_test
ReportTokens ==
    {Token_new(t.ttype, t.lexeme, ln) :
        t \in Alphabet \cup {EofToken, Token_new(TT("And"), "&", 1)},
        ln \in 1..MaxLine}

\* LoxError::new on a token, LoxError::new_text_only with and without a line
Diagnostics ==
    {LoxError_new(t, text) : t \in ReportTokens, text \in Texts}
        \cup {new_text_only(ln, text) :
                 ln \in {None} \cup {Some(i) : i \in 1..MaxLine}, text \in Texts}

InitReport ==
    /\ err \in {Some(e) : e \in Diagnostics}
    /\ rendered = None
    /\ RunIdle
    /\ ListIdle
    /\ PromptIdle
    /\ CursorIdle
    /\ ScannerIdle

\* let text = err.report_msg()
Report ==
    /\ err.some
    /\ rendered = None
    /\ rendered' = Some(report_msg(err.v))
    /\ UNCHANGED <<err, run_vars, list_vars, prompt_vars, cursor_vars, scanner_vars>>

NextReport == Report

SpecReport == InitReport /\ [][NextReport]_vars

(***************************************************************************)
(* lox_error/lox_error.rs: a LoxErrorList under a sequence of push and     *)
(* append calls.                                                           *)
(***************************************************************************)
\* the diagnostics pushed: one from each constructor
ListItems ==
    {LoxError_new(EofToken, "Invalid Token"),
     new_text_only(Some(1), "Expect ')' after expression.")}

\* the lists handed to append
ListsAppended == UNION {[1..n -> ListItems] : n \in 0..MaxAppended}

\* LoxErrorList::new()
InitList ==
    /\ list = LoxErrorList_new
    /\ calls = << >>
    /\ RunIdle
    /\ ReportIdle
    /\ PromptIdle
    /\ CursorIdle
    /\ ScannerIdle

\* list.push(error)
ListPush ==
    /\ Len(calls) < MaxCalls
    /\ \E error \in ListItems :
          /\ list' = push(list, error)
          /\ calls' = Append(calls, [op |-> "push", arg |-> error])
    /\ UNCHANGED <<run_vars, report_vars, prompt_vars, cursor_vars, scanner_vars>>

\* list.append(elst)
ListAppend ==
    /\ Len(calls) < MaxCalls
    /\ \E elst \in ListsAppended :
          /\ list' = append(list, elst)
          /\ calls' = Append(calls, [op |-> "append", arg |-> elst])
    /\ UNCHANGED <<run_vars, report_vars, prompt_vars, cursor_vars, scanner_vars>>

NextList == ListPush \/ ListAppend

SpecList == InitList /\ [][NextList]_vars

(***************************************************************************)
(* setup/compile.rs: run_prompt.  Standard input is a sequence of reads:   *)
(* a line (Ok(n), n > 0), a failure (Err) or end-of-input (Ok(0)), the     *)
(* last one.  Each read comes with the outcome of the flush made before    *)
(* it.  A line is given as the token vector the scanner makes of it.       *)
(***************************************************************************)
\* err.to_string() of a failed flush and of a failed read
FlushErrorText == "Broken pipe (os error 32)"

ReadErrorText == "stream did not contain valid UTF-8"

\* LoxErrorList::report: one line per diagnostic, in list order
report_lines(self) == [i \in 1..Len(self) |-> report_msg(self[i])]

\* print!("> ") and stdout().flush(), with the report of a failed flush
prompt_and_flush(flush_ok) ==
    IF flush_ok THEN <<"> ">>
    ELSE <<"> ", report_msg(new_text_only(None,
                     "Flushing problem: \"" \o FlushErrorText \o "\""))>>

\* the token vector of a trimmed line: it has no line break, so every token
\* and the closing Eof are on line 1
OneLine(toks) ==
    [i \in 1..(Len(toks) + 1) |->
        IF i <= Len(toks)
        THEN Token_new(toks[i].ttype, toks[i].lexeme, 1)
        ELSE Token_new(TT("Eof"), "", 1)]

\* the lines typed: 1 + 2, 1 + "a" and an empty line
PromptLines ==
    {OneLine(<<NumberToken("1"), add_token_type("Plus"), NumberToken("2")>>),
     OneLine(<<NumberToken("1"), add_token_type("Plus"), StringToken("a")>>),
     OneLine(<< >>)}

\* what one read_line call can find
Reads ==
    {[k |-> "line", flush_ok |-> f, tokens |-> l] : f \in BOOLEAN, l \in PromptLines}
        \cup {[k |-> "err", flush_ok |-> f, tokens |-> << >>] : f \in BOOLEAN}

EndOfInput == {[k |-> "eof", flush_ok |-> f, tokens |-> << >>] : f \in BOOLEAN}

\* standard input: at most MaxReads lines and failures, then end-of-input
Streams ==
    {r \o <<e>> : r \in UNION {[1..n -> Reads] : n \in 0..MaxReads}, e \in EndOfInput}

\* run_prompt up to the loop
InitPrompt ==
    /\ input \in Streams
    /\ stdin = input
    /\ console = <<"^c to end...\n">>
    /\ ran = << >>
    /\ prompt_pc = "read"
    /\ RunIdle
    /\ ReportIdle
    /\ ListIdle
    /\ CursorIdle
    /\ ScannerIdle

\* Ok(0) => break
ReadEof ==
    /\ prompt_pc = "read"
    /\ Head(stdin).k = "eof"
    /\ console' = console \o prompt_and_flush(Head(stdin).flush_ok)
    /\ stdin' = Tail(stdin)
    /\ prompt_pc' = "stopped"
    /\ UNCHANGED <<input, ran, run_vars, report_vars, list_vars, cursor_vars, scanner_vars>>

\* Err(err) => break, in place of report and continue
ReadErr_breaking ==
    /\ prompt_pc = "read"
    /\ Head(stdin).k = "err"
    /\ console' = console \o prompt_and_flush(Head(stdin).flush_ok)
    /\ stdin' = Tail(stdin)
    /\ prompt_pc' = "stopped"
    /\ UNCHANGED <<input, ran, run_vars, report_vars, list_vars, cursor_vars, scanner_vars>>

\* Err(err) => report the input problem and continue
ReadErr ==
    /\ prompt_pc = "read"
    /\ Head(stdin).k = "err"
    /\ console' = console \o prompt_and_flush(Head(stdin).flush_ok)
                     \o <<report_msg(new_text_only(None,
                              "Input problem: \"" \o ReadErrorText \o "\""))>>
    /\ stdin' = Tail(stdin)
    /\ UNCHANGED <<input, ran, prompt_pc, run_vars, report_vars, list_vars, cursor_vars, scanner_vars>>

\* Ok(_) => the line is trimmed and run(&line) starts on a new parser
ReadOk ==
    /\ prompt_pc = "read"
    /\ Head(stdin).k = "line"
    /\ console' = console \o prompt_and_flush(Head(stdin).flush_ok)
    /\ stdin' = Tail(stdin)
    /\ ran' = Append(ran, Head(stdin).tokens)
    /\ prompt_pc' = "run"
    /\ tokens' = Head(stdin).tokens
    /\ current' = 0
    /\ errors' = LoxErrorList_new
    /\ expr_opt' = None
    /\ printed' = << >>
    /\ evaluated' = None
    /\ interpreted' = 0
    /\ returned' = None
    /\ pc' = "parse"
    /\ UNCHANGED <<input, report_vars, list_vars, cursor_vars, scanner_vars>>

\* run(&line).report(): what run printed, then one line per diagnostic
ReportRun ==
    /\ prompt_pc = "run"
    /\ pc = "done"
    /\ console' = console \o printed \o report_lines(returned.v)
    /\ prompt_pc' = "read"
    /\ UNCHANGED <<input, stdin, ran, run_vars, report_vars, list_vars, cursor_vars, scanner_vars>>

NextPrompt == ReadEof \/ ReadErr \/ ReadOk \/ Parse \/ RunNone \/ RunSome \/ ReportRun

SpecPrompt == InitPrompt /\ [][NextPrompt]_vars

\* the step on which parser.parse() returns to run
ParseReturns == pc = "parse" /\ pc' = "match"

\* the step on which run's match returns to run_prompt or unwinds
RunReturns == pc = "match" /\ pc' \in {"done", "panic"}

\* the loop is not held up: stdin answers every read, and a call that has
\* been entered returns
FairSpecPrompt ==
    /\ SpecPrompt
    /\ WF_vars(ReadEof \/ ReadErr \/ ReadOk \/ ReportRun)
    /\ WF_pc(ParseReturns)
    /\ WF_pc(RunReturns)

(***************************************************************************)
(* Parser/parser.rs: Parser::synchronize, called on a parser whose cursor  *)
(* is anywhere in its token vector.  One step is the opening advance, one  *)
(* test of the loop condition with the body that follows it, or a return.  *)
(***************************************************************************)
\* a token of a payload-free kind with the text that spells it
WordToken(tt, text) == Token_new(TT(tt), text, 1)

\* the test of synchronize's second if: the kinds it compares the type with
is_statement_start_without_print(ttype) ==
    ttype \in {TT("Class"), TT("Fun"), TT("Var"), TT("For"), TT("If"),
               TT("While"), TT("Return")}

\* *tt == Class || *tt == Fun || ... || *tt == Return
is_statement_start(ttype) ==
    ttype \in {TT("Class"), TT("Fun"), TT("Var"), TT("For"), TT("If"),
               TT("While"), TT("Print"), TT("Return")}

\* a number, the semicolon and the eight keywords synchronize looks for
SyncAlphabet ==
    {NumberToken("1"), add_token_type("Semicolon"),
     WordToken("Class", "class"), WordToken("Fun", "fun"), WordToken("Var", "var"),
     WordToken("For", "for"), WordToken("If", "if"), WordToken("While", "while"),
     WordToken("Print", "print"), WordToken("Return", "return")}

\* every token vector of at most MaxLen such tokens, Eof last
SyncInputs == {OneLine(s) : s \in UNION {[1..n -> SyncAlphabet] : n \in 0..MaxLen}}

\* a parser with its cursor on any token, about to call synchronize
InitSync ==
    /\ tokens \in SyncInputs
    /\ current \in 0..(Len(tokens) - 1)
    /\ entered = Some(current)
    /\ errors = LoxErrorList_new
    /\ expr_opt = None
    /\ printed = << >>
    /\ evaluated = None
    /\ interpreted = 0
    /\ returned = None
    /\ pc = "synchronize"
    /\ ReportIdle
    /\ ListIdle
    /\ PromptIdle
    /\ ScannerIdle

\* self.advance();
SyncEnter ==
    /\ pc = "synchronize"
    /\ current' = advance(tokens, current)
    /\ pc' = "while"
    /\ UNCHANGED <<tokens, errors, expr_opt, printed, evaluated, interpreted, returned>>
    /\ UNCHANGED outside_run

\* while (!self.is_at_end()) fails: the method returns
SyncAtEnd ==
    /\ pc = "while"
    /\ is_at_end(tokens, current)
    /\ pc' = "returned"
    /\ UNCHANGED <<tokens, current, errors, expr_opt, printed, evaluated, interpreted, returned>>
    /\ UNCHANGED outside_run

\* if (self.previous().ttype == TokenType::Semicolon) { return; }
SyncSemicolon ==
    /\ pc = "while"
    /\ ~is_at_end(tokens, current)
    /\ previous(tokens, current).ttype = TT("Semicolon")
    /\ pc' = "returned"
    /\ UNCHANGED <<tokens, current, errors, expr_opt, printed, evaluated, interpreted, returned>>
    /\ UNCHANGED outside_run

\* if (*tt == Class || ...) { return; }
SyncKeyword ==
    /\ pc = "while"
    /\ ~is_at_end(tokens, current)
    /\ previous(tokens, current).ttype # TT("Semicolon")
    /\ is_statement_start(peek(tokens, current).ttype)
    /\ pc' = "returned"
    /\ UNCHANGED <<tokens, current, errors, expr_opt, printed, evaluated, interpreted, returned>>
    /\ UNCHANGED outside_run

\* self.advance(); at the end of the loop body
SyncAdvance ==
    /\ pc = "while"
    /\ ~is_at_end(tokens, current)
    /\ previous(tokens, current).ttype # TT("Semicolon")
    /\ ~is_statement_start(peek(tokens, current).ttype)
    /\ current' = advance(tokens, current)
    /\ pc' = "while"
    /\ UNCHANGED <<tokens, errors, expr_opt, printed, evaluated, interpreted, returned>>
    /\ UNCHANGED outside_run

NextSync == SyncEnter \/ SyncAtEnd \/ SyncSemicolon \/ SyncKeyword \/ SyncAdvance

SpecSync == InitSync /\ [][NextSync]_vars

(***************************************************************************)
(* Parser/parser.rs: one call of a parser method on a parser whose cursor  *)
(* is anywhere up to the first Eof of its token vector: the cursor         *)
(* primitives, and the three rules that are entered again from inside a    *)
(* parse: expression (from primary), unary (from unary and factor) and     *)
(* primary.                                                                *)
(***************************************************************************)
\* one operator of each precedence level, the prefix operators, the
\* parentheses, a literal, a token the grammar does not know, and Eof
CursorAlphabet ==
    {add_token_type(tt) : tt \in {"Bang", "Minus", "Star", "Less", "EqualEqual",
                                  "LeftParen", "RightParen", "Semicolon"}}
        \cup {NumberToken("1"), EofToken}

\* every token vector of at most MaxLen such tokens, with Eof pushed last
CursorInputs == {OneLine(s) : s \in UNION {[1..n -> CursorAlphabet] : n \in 0..MaxLen}}

\* the 0-based index of the first Eof of a token vector
FirstEof(toks) ==
    CHOOSE i \in 0..(Len(toks) - 1) :
        /\ toks[i + 1].ttype = TT("Eof")
        /\ \A j \in 0..(i - 1) : toks[j + 1].ttype # TT("Eof")

\* the token-type lists the grammar rules hand to match_one_of!
MatchLists ==
    {<<"BangEqual", "EqualEqual">>,
     <<"Greater", "GreaterEqual", "Less", "LessEqual">>,
     <<"Minus", "Plus">>,
     <<"Slash", "Star">>,
     <<"Bang", "Minus">>,
     <<"False", "True", "Nil", "Number", "String">>,
     <<"LeftParen">>}

\* a parser with its cursor on any token up to the first Eof
InitCursor ==
    /\ tokens \in CursorInputs
    /\ current \in 0..FirstEof(tokens)
    /\ entered = Some(current)
    /\ errors = LoxErrorList_new
    /\ expr_opt = None
    /\ printed = << >>
    /\ evaluated = None
    /\ interpreted = 0
    /\ returned = None
    /\ pc = "call"
    /\ ReportIdle
    /\ ListIdle
    /\ PromptIdle
    /\ ScannerIdle

\* a grammar rule returns: the parser's fields and the node afterwards
RuleReturns(r) ==
    /\ current' = r.current
    /\ errors' = r.errors
    /\ expr_opt' = Some(r.expr)
    /\ pc' = "returned"
    /\ UNCHANGED <<tokens, printed, evaluated, interpreted, returned>>
    /\ UNCHANGED outside_run

CallAdvance ==
    /\ pc = "call"
    /\ current' = advance(tokens, current)
    /\ pc' = "returned"
    /\ UNCHANGED <<tokens, errors, expr_opt, printed, evaluated, interpreted, returned>>
    /\ UNCHANGED outside_run

CallMatchOneOf ==
    /\ pc = "call"
    /\ \E tts \in MatchLists : current' = match_one_of(tokens, current, tts).current
    /\ pc' = "returned"
    /\ UNCHANGED <<tokens, errors, expr_opt, printed, evaluated, interpreted, returned>>
    /\ UNCHANGED outside_run

CallConsume ==
    /\ pc = "call"
    /\ LET Assign(r) == current' = r.current /\ errors' = r.errors
       IN  Assign(consume(tokens, current, errors, "RightParen",
                          "Expect ')' after expression."))
    /\ pc' = "returned"
    /\ UNCHANGED <<tokens, expr_opt, printed, evaluated, interpreted, returned>>
    /\ UNCHANGED outside_run

CallExpression == pc = "call" /\ RuleReturns(expression(tokens, current, errors))

CallUnary == pc = "call" /\ RuleReturns(unary(tokens, current, errors))

CallPrimary == pc = "call" /\ RuleReturns(primary(tokens, current, errors))

NextCursor ==
    \/ CallAdvance
    \/ CallMatchOneOf
    \/ CallConsume
    \/ CallExpression
    \/ CallUnary
    \/ CallPrimary

SpecCursor == InitCursor /\ [][NextCursor]_vars

\* the step on which the method called returns
CallReturns == pc = "call" /\ pc' = "returned"

\* a method that has been entered runs on
FairSpecCursor == SpecCursor /\ WF_pc(CallReturns)

(***************************************************************************)
(* scanner/mod.rs: Scanner::scan_tokens on a Scanner that Scanner::new     *)
(* built from an ASCII text.  The text is the sequence of its characters,  *)
(* each a string of length one; indices are 0-based as in the code.  One   *)
(* step is one pass of the loop, by the arm of scan_token it takes, or the *)
(* push of Eof after the loop.                                             *)
(***************************************************************************)
\* '\0', which peek and peek_next return at the end of the text
NUL == "NUL"

Digits == {"0", "1", "2", "3", "4", "5", "6", "7", "8", "9"}

\* the arms of scan_token for the unambiguous single characters
SingleChars ==
    [c \in {"(", ")", "{", "}", ",", ".", "-", "+", ";", "*"} |->
        CASE c = "(" -> "LeftParen"  [] c = ")" -> "RightParen"
          [] c = "{" -> "LeftBrace"  [] c = "}" -> "RightBrace"
          [] c = "," -> "Comma"      [] c = "." -> "Dot"
          [] c = "-" -> "Minus"      [] c = "+" -> "Plus"
          [] c = ";" -> "Semicolon"  [] OTHER   -> "Star"]

\* the arms for the characters that an '=' may follow: without and with it
EqualChars ==
    [c \in {"!", "=", "<", ">"} |->
        CASE c = "!" -> <<"Bang", "BangEqual">>
          [] c = "=" -> <<"Equal", "EqualEqual">>
          [] c = "<" -> <<"Less", "LessEqual">>
          [] OTHER   -> <<"Greater", "GreaterEqual">>]

\* Scanner::is_at_end
Scanner_is_at_end(src, cur) == cur >= Len(src)

\* Scanner::peek
Scanner_peek(src, cur) == IF Scanner_is_at_end(src, cur) THEN NUL ELSE src[cur + 1]

\* Scanner::peek_next
Scanner_peek_next(src, cur) == IF cur + 1 >= Len(src) THEN NUL ELSE src[cur + 2]

\* Scanner::match_ch: whether the next character is the expected one
match_ch(src, cur, expected) ==
    IF Scanner_is_at_end(src, cur) THEN FALSE ELSE src[cur + 1] = expected

\* Scanner::add_token_type on the scanner's line
Scanner_add_token_type(tt, line) == Token_new(TT(tt), to_stringslice(TT(tt)), line)

\* self.source[from..to].to_string()
RECURSIVE slice(_, _, _)
slice(src, from, to) ==
    IF from >= to THEN "" ELSE src[from + 1] \o slice(src, from + 1, to)

\* while self.peek() != '\n' && !self.is_at_end() { self.advance(); }
RECURSIVE skip_comment(_, _)
skip_comment(src, cur) ==
    IF Scanner_peek(src, cur) # "\n" /\ ~Scanner_is_at_end(src, cur)
    THEN skip_comment(src, cur + 1)
    ELSE cur

\* the loop of scan_string: the position and the line where it stops
RECURSIVE string_loop(_, _, _)
string_loop(src, cur, line) ==
    IF Scanner_peek(src, cur) # "\"" /\ ~Scanner_is_at_end(src, cur)
    THEN string_loop(src, cur + 1, IF Scanner_peek(src, cur) = "\n" THEN line + 1 ELSE line)
    ELSE [current |-> cur, line |-> line]

\* while self.peek().is_digit(10) { self.advance(); }
RECURSIVE digits_loop(_, _)
digits_loop(src, cur) ==
    IF Scanner_peek(src, cur) \in Digits THEN digits_loop(src, cur + 1) ELSE cur

\* Scanner::scan_number: the position after the numeral
scan_number(src, cur) ==
    LET Fraction(c) ==
            IF Scanner_peek(src, c) = "." /\ Scanner_peek_next(src, c) \in Digits
            THEN digits_loop(src, c + 1)
            ELSE c
    IN  Fraction(digits_loop(src, cur))

\* the characters of the program texts: one per arm of scan_token
SourceChars == {"(", "!", "=", "/", " ", "\n", "\"", "1", ".", "a"}

\* every text of at most MaxSource such characters
Sources == UNION {[1..n -> SourceChars] : n \in 0..MaxSource}

\* Scanner::new
InitScan ==
    /\ source \in Sources
    /\ start = 0
    /\ scurrent = 0
    /\ sline = 1
    /\ stokens = << >>
    /\ serrors = LoxErrorList_new
    /\ scanner_pc = "scan"
    /\ RunIdle
    /\ ReportIdle
    /\ ListIdle
    /\ PromptIdle
    /\ CursorIdle

\* one pass of the loop of scan_tokens whose advance() returns one of chars
Pass(chars) ==
    /\ scanner_pc = "scan"
    /\ ~Scanner_is_at_end(source, scurrent)
    /\ source[scurrent + 1] \in chars
    /\ start' = scurrent
    /\ UNCHANGED <<source, scanner_pc, run_vars, report_vars, list_vars, prompt_vars,
                   cursor_vars>>

\* '(' ... '*' => self.add_token_type(..)
ScanSingle ==
    /\ Pass(DOMAIN SingleChars)
    /\ scurrent' = scurrent + 1
    /\ stokens' = Append(stokens,
                         Scanner_add_token_type(SingleChars[source[scurrent + 1]], sline))
    /\ UNCHANGED <<sline, serrors>>

\* '!', '=', '<', '>' => the longer token if match_ch('=')
ScanEqual ==
    /\ Pass(DOMAIN EqualChars)
    /\ IF match_ch(source, scurrent + 1, "=")
       THEN /\ scurrent' = scurrent + 2
            /\ stokens' = Append(stokens,
                    Scanner_add_token_type(EqualChars[source[scurrent + 1]][2], sline))
       ELSE /\ scurrent' = scurrent + 1
            /\ stokens' = Append(stokens,
                    Scanner_add_token_type(EqualChars[source[scurrent + 1]][1], sline))
    /\ UNCHANGED <<sline, serrors>>

\* '/' => a comment up to the end of the line, or Slash
ScanSlash ==
    /\ Pass({"/"})
    /\ IF match_ch(source, scurrent + 1, "/")
       THEN /\ scurrent' = skip_comment(source, scurrent + 2)
            /\ UNCHANGED stokens
       ELSE /\ scurrent' = scurrent + 1
            /\ stokens' = Append(stokens, Scanner_add_token_type("Slash", sline))
    /\ UNCHANGED <<sline, serrors>>

\* ' ' | '\r' | '\t' => {}
ScanBlank ==
    /\ Pass({" ", "\r", "\t"})
    /\ scurrent' = scurrent + 1
    /\ UNCHANGED <<sline, stokens, serrors>>

\* '\n' => self.line += 1
ScanNewline ==
    /\ Pass({"\n"})
    /\ scurrent' = scurrent + 1
    /\ sline' = sline + 1
    /\ UNCHANGED <<stokens, serrors>>

\* the token scan_string adds: the text between the quotes, on the line
\* the string ends on
StringTokenOn(text, line) ==
    Token_new(TokenType("String", text), "\"" \o text \o "\"", line)

\* '"' => self.scan_string()
ScanString ==
    /\ Pass({"\""})
    /\ LET Close(at) ==
            IF Scanner_is_at_end(source, at.current)
            THEN /\ scurrent' = at.current
                 /\ serrors' = push(serrors, new_text_only(None, "Unterminated string."))
                 /\ UNCHANGED stokens
            ELSE /\ scurrent' = at.current + 1
                 /\ stokens' = Append(stokens,
                        StringTokenOn(slice(source, scurrent + 1, at.current), at.line))
                 /\ UNCHANGED serrors
       IN  /\ Close(string_loop(source, scurrent + 1, sline))
           /\ sline' = string_loop(source, scurrent + 1, sline).line

\* '0'..='9' => self.scan_number(c)
ScanNumber ==
    /\ Pass(Digits)
    /\ LET Add(to) ==
            /\ scurrent' = to
            /\ stokens' = Append(stokens,
                    Token_new(TokenType("Number", slice(source, scurrent, to)),
                              slice(source, scurrent, to), sline))
       IN  Add(scan_number(source, scurrent + 1))
    /\ UNCHANGED <<sline, serrors>>

\* _ => self.errors.push(.. "Unexpected character." ..)
ScanUnexpected ==
    /\ Pass({c \in SourceChars :
                c \notin DOMAIN SingleChars \cup DOMAIN EqualChars \cup Digits
                           \cup {"/", " ", "\r", "\t", "\n", "\""}})
    /\ scurrent' = scurrent + 1
    /\ serrors' = push(serrors, new_text_only(Some(sline), "Unexpected character."))
    /\ UNCHANGED <<sline, stokens>>

\* the end of scan_tokens without the push of Eof
ScanEnd_without_sentinel ==
    /\ scanner_pc = "scan"
    /\ Scanner_is_at_end(source, scurrent)
    /\ scanner_pc' = "done"
    /\ UNCHANGED <<source, start, scurrent, sline, stokens, serrors>>
    /\ UNCHANGED <<run_vars, report_vars, list_vars, prompt_vars, cursor_vars>>

\* the loop ends: self.add_token(Token::new(&TokenType::Eof, "", self.line))
ScanEnd ==
    /\ scanner_pc = "scan"
    /\ Scanner_is_at_end(source, scurrent)
    /\ stokens' = Append(stokens, Token_new(TT("Eof"), "", sline))
    /\ scanner_pc' = "done"
    /\ UNCHANGED <<source, start, scurrent, sline, serrors>>
    /\ UNCHANGED <<run_vars, report_vars, list_vars, prompt_vars, cursor_vars>>

NextScan ==
    \/ ScanSingle
    \/ ScanEqual
    \/ ScanSlash
    \/ ScanBlank
    \/ ScanNewline
    \/ ScanString
    \/ ScanNumber
    \/ ScanUnexpected
    \/ ScanEnd

SpecScan == InitScan /\ [][NextScan]_vars

\* scan_tokens, once called, runs on
FairSpecScan == SpecScan /\ WF_vars(NextScan)

(***************************************************************************)
(* Properties.                                                             *)
(***************************************************************************)
ParseFinished == pc # "parse"

\* C1: once Parser::parse has returned, it returned Some(AST) exactly when the
\* parser's diagnostic list is empty and None exactly when it is not; a tree
\* never comes with a recorded syntax diagnostic.
C1_TreeIffNoDiagnostic ==
    ParseFinished => (expr_opt.some <=> len(errors) = 0)

\* parse has returned None with a non-empty list
C1_Witness == pc = "match" /\ ~expr_opt.some /\ len(errors) > 0

\* C2: Evaluator::interpret is called only after the parse has finished and
\* only when the parse recorded no diagnostic; when the parse recorded one,
\* interpret is never called and run returns exactly the parser's list.
C2_SyntaxErrorsGateEvaluation ==
    /\ interpreted > 0 => ParseFinished /\ pc # "match" /\ len(errors) = 0
    /\ ~ParseFinished => interpreted = 0 /\ evaluated = None
    /\ len(errors) > 0 => interpreted = 0 /\ evaluated = None
    /\ pc = "done" /\ len(errors) > 0 => returned = Some(errors)

\* run has returned the parser's diagnostics without a call of interpret
C2_Witness ==
    pc = "done" /\ len(errors) > 0 /\ returned = Some(errors) /\ interpreted = 0

(***************************************************************************)
(* The grammar the parser's rules are written after, as a recogniser over  *)
(* token kinds that shares nothing with the parser operators:              *)
(*   level 1  equality   -> comparison ( ("!=" | "==") comparison )*       *)
(*   level 2  comparison -> term ( (">" | ">=" | "<" | "<=") term )*       *)
(*   level 3  term       -> factor ( ("-" | "+") factor )*                 *)
(*   level 4  factor     -> unary ( ("/" | "*") unary )*                   *)
(*   level 5  unary      -> ("!" | "-") unary | primary                    *)
(*   level 6  primary    -> literal | "(" expression ")"                   *)
(* Derives(l, k, i, j): level l derives the kinds k[i..j].                 *)
(***************************************************************************)
LevelOps(l) ==
    CASE l = 1 -> {"BangEqual", "EqualEqual"}
      [] l = 2 -> {"Greater", "GreaterEqual", "Less", "LessEqual"}
      [] l = 3 -> {"Minus", "Plus"}
      [] l = 4 -> {"Slash", "Star"}
      [] l = 5 -> {"Bang", "Minus"}
      [] OTHER -> {"False", "True", "Nil", "Number", "String"}

RECURSIVE Derives(_, _, _, _)
Derives(l, k, i, j) ==
    /\ i <= j
    /\ CASE l <= 4 ->
                \/ Derives(l + 1, k, i, j)
                \/ \E m \in (i + 1)..(j - 1) :
                      /\ k[m] \in LevelOps(l)
                      /\ Derives(l, k, i, m - 1)
                      /\ Derives(l + 1, k, m + 1, j)
         [] l = 5 ->
                \/ k[i] \in LevelOps(5) /\ Derives(5, k, i + 1, j)
                \/ Derives(6, k, i, j)
         [] OTHER ->
                \/ i = j /\ k[i] \in LevelOps(6)
                \/ k[i] = "LeftParen" /\ k[j] = "RightParen" /\ Derives(1, k, i + 1, j - 1)

\* the kinds of the tokens in front of the Eof sentinel
Kinds(toks) == [i \in 1..(Len(toks) - 1) |-> toks[i].ttype.tt]

\* the whole token vector, up to Eof, is one expression of the grammar
Derivable(toks) == Derives(1, Kinds(toks), 1, Len(toks) - 1)

\* C3: Parser::parse returns an AST only for token sequences the grammar
\* derives in full from expression; for every other sequence it returns None
\* and leaves at least one diagnostic in the list.
C3_OnlyDerivableSequencesParse ==
    ParseFinished /\ ~Derivable(tokens) => ~expr_opt.some /\ len(errors) > 0

\* the sub-nodes of a tree, the root included
RECURSIVE Nodes(_)
Nodes(e) ==
    {e} \cup
        CASE e.node = "binary"   -> Nodes(e.left) \cup Nodes(e.right)
          [] e.node = "grouping" -> Nodes(e.expression)
          [] e.node = "unary"    -> Nodes(e.right)
          [] OTHER               -> {}

\* the precedence level of a binary operator kind, 1 loosest, 4 tightest
OpLevel(tt) == CHOOSE l \in 1..4 : tt \in LevelOps(l)

\* the token vector is a op1 b op2 c with literal operands
IsTriple(toks) ==
    /\ Len(toks) = 6
    /\ \A i \in {1, 3, 5} : toks[i].ttype.tt \in LevelOps(6)
    /\ \A i \in {2, 4} : \E l \in 1..4 : toks[i].ttype.tt \in LevelOps(l)

\* the tree of a op1 b op2 c: op2 takes b only when it is at a tighter level
TripleTree(toks) ==
    LET a == [node |-> "literal", value |-> toks[1].ttype]
        b == [node |-> "literal", value |-> toks[3].ttype]
        c == [node |-> "literal", value |-> toks[5].ttype]
    IN  IF OpLevel(toks[4].ttype.tt) > OpLevel(toks[2].ttype.tt)
        THEN [node |-> "binary", left |-> a, operator |-> toks[2],
              right |-> [node |-> "binary", left |-> b, operator |-> toks[4], right |-> c]]
        ELSE [node |-> "binary", operator |-> toks[4], right |-> c,
              left |-> [node |-> "binary", left |-> a, operator |-> toks[2], right |-> b]]

\* the token vector is 1 - 2 - 3
OneMinusTwoMinusThree ==
    /\ Len(tokens) = 6
    /\ [i \in 1..5 |-> tokens[i].ttype] =
          <<TokenType("Number", "1"), TT("Minus"), TokenType("Number", "2"),
            TT("Minus"), TokenType("Number", "3")>>

\* C4: binary operators of one precedence level group to the left and tighter
\* levels bind first.  In every tree the parser returns, the right operand of a
\* Binary is never a Binary of the same or a looser level and the left operand
\* is never a Binary of a looser level; a op1 b op2 c parses to
\* Binary(Binary(a, op1, b), op2, c) unless op2 is at a tighter level than op1;
\* and 1 - 2 - 3 evaluates to the number -4.
C4_LeftAssociativeByLevel ==
    /\ ParseFinished /\ expr_opt.some =>
          \A n \in Nodes(expr_opt.v) :
              n.node = "binary" =>
                  /\ n.right.node = "binary" =>
                        OpLevel(n.right.operator.ttype.tt) > OpLevel(n.operator.ttype.tt)
                  /\ n.left.node = "binary" =>
                        OpLevel(n.left.operator.ttype.tt) >= OpLevel(n.operator.ttype.tt)
    /\ ParseFinished /\ IsTriple(tokens) =>
          /\ expr_opt = Some(TripleTree(tokens))
          /\ current = 5
    /\ pc = "done" /\ OneMinusTwoMinusThree =>
          /\ evaluated.some
          /\ evaluated.v.tag = "Ok"
          /\ evaluated.v.val = Val(LoxNumber([k |-> "fin", s |-> -1, n |-> 4, d |-> 1]))

\* 1 - 2 - 3 has been parsed to Binary(Binary(1, -, 2), -, 3) and evaluated
C4_Witness ==
    /\ pc = "done"
    /\ OneMinusTwoMinusThree
    /\ expr_opt.some
    /\ expr_opt.v.left.node = "binary"
    /\ evaluated.some

\* the token vector is n >= 1 prefix operators and one literal
IsUnaryChain(toks) ==
    /\ Len(toks) >= 3
    /\ \A i \in 1..(Len(toks) - 2) : toks[i].ttype.tt \in LevelOps(5)
    /\ toks[Len(toks) - 1].ttype.tt \in LevelOps(6)

\* one Unary node per operator token from token i on, the first token outermost
RECURSIVE ChainTree(_, _)
ChainTree(toks, i) ==
    IF toks[i].ttype.tt \in LevelOps(5)
    THEN [node |-> "unary", operator |-> toks[i], right |-> ChainTree(toks, i + 1)]
    ELSE [node |-> "literal", value |-> toks[i].ttype]

\* the token vector is ! - 1
BangMinusOne ==
    /\ Len(tokens) = 4
    /\ [i \in 1..3 |-> tokens[i].ttype] =
          <<TT("Bang"), TT("Minus"), TokenType("Number", "1")>>

\* C5: a chain of n prefix operators ! and -, in any mix and order, in front of
\* a primary parses to n nested Unary nodes, one per operator token in source
\* order with the first token outermost; so ! - 1 is Unary(!, Unary(-, 1)) and
\* its evaluation is the diagnostic "Expected bool but found number".
C5_OneUnaryNodePerPrefixOperator ==
    /\ ParseFinished /\ IsUnaryChain(tokens) =>
          expr_opt = Some(ChainTree(tokens, 1))
    /\ pc = "done" /\ BangMinusOne =>
          /\ evaluated.some
          /\ evaluated.v.tag = "Err"
          /\ evaluated.v.val.text = "Expected bool but found number"

\* the operands of a node
Operands(e) ==
    CASE e.node = "binary"   -> {e.left, e.right}
      [] e.node = "grouping" -> {e.expression}
      [] e.node = "unary"    -> {e.right}
      [] OTHER               -> {}

\* the nodes of a tree in left-to-right post-order
RECURSIVE PostOrder(_)
PostOrder(e) ==
    CASE e.node = "binary"   -> PostOrder(e.left) \o PostOrder(e.right) \o <<e>>
      [] e.node = "grouping" -> PostOrder(e.expression) \o <<e>>
      [] e.node = "unary"    -> PostOrder(e.right) \o <<e>>
      [] OTHER               -> <<e>>

\* the node fails on its own: its operands have values and it has none
Raises(e) ==
    /\ evaluate(e).tag = "Err"
    /\ \A c \in Operands(e) : evaluate(c).tag = "Ok"

\* the diagnostics of the nodes that fail on their own, in post-order
RaisedInPostOrder(e) ==
    LET po == PostOrder(e)
        F(i) == Raises(po[i])
    IN  [j \in 1..Cardinality({i \in 1..Len(po) : F(i)}) |->
            evaluate(po[CHOOSE i \in 1..Len(po) :
                            F(i) /\ Cardinality({h \in 1..i : F(h)}) = j]).val]

\* C6: evaluating a tree gives one value or one diagnostic, and the diagnostic
\* is the one of the first node, in left-to-right post-order, that fails on its
\* own.  A failure of the left operand of a Binary is returned with the right
\* operand not visited; a failure of either operand is returned in place of
\* the type error of the enclosing operator; interpret returns a list of
\* length 0 (a value) or 1 (that diagnostic).
C6_FirstFailureInPostOrder ==
    evaluated.some =>
        /\ evaluated.v.tag \in {"Ok", "Err"}
        /\ pc = "done" /\ returned.some
        /\ evaluated.v.tag = "Ok" =>
              /\ RaisedInPostOrder(expr_opt.v) = << >>
              /\ returned.v = << >>
        /\ evaluated.v.tag = "Err" =>
              /\ RaisedInPostOrder(expr_opt.v) # << >>
              /\ evaluated.v.val = RaisedInPostOrder(expr_opt.v)[1]
              /\ returned.v = <<evaluated.v.val>>
        /\ \A n \in Nodes(expr_opt.v) :
              /\ n.node = "binary" /\ evaluate(n.left).tag = "Err" =>
                    /\ evaluate(n).tag = "Err"
                    /\ evaluate(n).val = evaluate(n.left).val
                    /\ evaluate(n).visits = evaluate(n.left).visits + 1
              /\ n.node = "binary" /\ evaluate(n.left).tag = "Ok"
                                   /\ evaluate(n.right).tag = "Err" =>
                    /\ evaluate(n).tag = "Err"
                    /\ evaluate(n).val = evaluate(n.right).val
              /\ n.node \in {"unary", "grouping"} =>
                    \A c \in Operands(n) :
                        evaluate(c).tag = "Err" =>
                            evaluate(n).tag = "Err" /\ evaluate(n).val = evaluate(c).val

\* both operands of the root fail on evaluation, with different diagnostics,
\* and run has returned a list of one
C6_Witness ==
    /\ pc = "done"
    /\ evaluated.some
    /\ expr_opt.v.node = "binary"
    /\ evaluate(expr_opt.v.left).tag = "Err"
    /\ evaluate(expr_opt.v.right).tag = "Err"
    /\ evaluate(expr_opt.v.left).val.text # evaluate(expr_opt.v.right).val.text
    /\ Len(returned.v) = 1

(***************************************************************************)
(* What the operators are to compute, stated on the nodes of every tree    *)
(* that run evaluates and without the evaluator's helpers.                 *)
(***************************************************************************)
\* the nodes of the tree that run has evaluated
EvaluatedNodes == IF evaluated.some THEN Nodes(expr_opt.v) ELSE {}

\* a Binary node with operator kind in ops whose two operands have values
BinaryOn(n, ops) ==
    /\ n.node = "binary"
    /\ n.operator.ttype.tt \in ops
    /\ evaluate(n.left).tag = "Ok"
    /\ evaluate(n.right).tag = "Ok"

\* a Unary node with operator kind tt whose operand has a value
UnaryOn(n, tt) ==
    /\ n.node = "unary"
    /\ n.operator.ttype.tt = tt
    /\ evaluate(n.right).tag = "Ok"

\* the runtime value of a node that has one
ValueOf(e) == evaluate(e).val.val

\* the diagnostic with this text on this token
Diag(token, text) ==
    [token_option |-> [some |-> TRUE, v |-> token],
     line_option  |-> [some |-> TRUE, v |-> token.line],
     text         |-> text]

\* the node evaluates to the value v
Gives(n, v) == evaluate(n).tag = "Ok" /\ evaluate(n).val = [pr |-> "Val", val |-> v]

\* the node evaluates to the diagnostic with this text on its operator token
Fails(n, text) == evaluate(n).tag = "Err" /\ evaluate(n).val = Diag(n.operator, text)

VariantName(v) ==
    CASE v.t = "Nil"    -> "nil"
      [] v.t = "Bool"   -> "bool"
      [] v.t = "Number" -> "number"
      [] v.t = "String" -> "string"

\* a finite number as the fraction Num / Den
Num(x) == x.s * x.n

Den(x) == x.d

AllFinite(xs) == \A x \in xs : x.k = "fin"

\* same variant and equal content
SameValue(a, b) ==
    /\ a.t = b.t
    /\ CASE a.t = "Nil"    -> TRUE
         [] a.t = "Bool"   -> a.b = b.b
         [] a.t = "String" -> a.s = b.s
         [] a.t = "Number" ->
                \/ AllFinite({a.n, b.n}) /\ Num(a.n) * Den(b.n) = Num(b.n) * Den(a.n)
                \/ a.n.k = "inf" /\ b.n.k = "inf" /\ a.n.s = b.n.s

\* C7: on every pair of operand values, == and != give a Bool and neither a
\* diagnostic nor a panic; == is true exactly when the two values are of the
\* same variant with equal content, so every pair of two variants gives false
\* and nil equals nil only; != is the negation of == on the same operands.
C7_EqualityIsTotal ==
    \A n \in EvaluatedNodes :
        /\ BinaryOn(n, {"EqualEqual"}) =>
              Gives(n, [t |-> "Bool", b |-> SameValue(ValueOf(n.left), ValueOf(n.right))])
        /\ BinaryOn(n, {"BangEqual"}) =>
              Gives(n, [t |-> "Bool", b |-> ~SameValue(ValueOf(n.left), ValueOf(n.right))])

\* 1 == "1" has been evaluated, to false
C7_Witness ==
    /\ pc = "done"
    /\ evaluated.some
    /\ BinaryOn(expr_opt.v, {"EqualEqual"})
    /\ ValueOf(expr_opt.v.left).t = "Number"
    /\ ValueOf(expr_opt.v.right) = [t |-> "String", s |-> "1"]
    /\ evaluated.v.val = [pr |-> "Val", val |-> [t |-> "Bool", b |-> FALSE]]
    /\ returned.v = << >>

\* C8: + on two operand values gives the sum when both are Number, the
\* concatenation, left then right, when both are String, and for every other
\* pair of variants the diagnostic "Mismatched types" on the + token.
C8_PlusAddsOrConcatenates ==
    \A n \in EvaluatedNodes :
        BinaryOn(n, {"Plus"}) =>
            LET l == ValueOf(n.left)
                r == ValueOf(n.right)
            IN  CASE l.t = "Number" /\ r.t = "Number" ->
                        /\ evaluate(n).tag = "Ok"
                        /\ ValueOf(n).t = "Number"
                        /\ AllFinite({l.n, r.n}) =>
                              /\ ValueOf(n).n.k = "fin"
                              /\ Num(ValueOf(n).n) * Den(l.n) * Den(r.n) =
                                    (Num(l.n) * Den(r.n) + Num(r.n) * Den(l.n))
                                        * Den(ValueOf(n).n)
                  [] l.t = "String" /\ r.t = "String" ->
                        Gives(n, [t |-> "String", s |-> l.s \o r.s])
                  [] OTHER -> Fails(n, "Mismatched types")

\* a Number and a String have been added, with the diagnostic as the result
C8_Witness ==
    /\ pc = "done"
    /\ evaluated.some
    /\ BinaryOn(expr_opt.v, {"Plus"})
    /\ ValueOf(expr_opt.v.left).t = "Number"
    /\ ValueOf(expr_opt.v.right).t = "String"
    /\ returned.v = <<Diag(expr_opt.v.operator, "Mismatched types")>>

\* the result x of the arithmetic operator tt on the finite numbers a and b
Arithmetic(tt, a, b, x) ==
    CASE tt = "Minus" ->
            /\ x.k = "fin"
            /\ Num(x) * Den(a) * Den(b) = (Num(a) * Den(b) - Num(b) * Den(a)) * Den(x)
      [] tt = "Star" ->
            /\ x.k = "fin"
            /\ Num(x) * Den(a) * Den(b) = Num(a) * Num(b) * Den(x)
      [] tt = "Slash" /\ Num(b) # 0 ->
            /\ x.k = "fin"
            /\ Num(x) * Den(a) * Num(b) = Num(a) * Den(b) * Den(x)
      [] tt = "Slash" /\ Num(a) # 0 -> x.k = "inf" /\ x.s = a.s * b.s
      [] OTHER -> x.k = "nan"

\* the comparison tt of the finite numbers a and b
Comparison(tt, a, b) ==
    CASE tt = "Greater"      -> Num(a) * Den(b) > Num(b) * Den(a)
      [] tt = "GreaterEqual" -> Num(a) * Den(b) >= Num(b) * Den(a)
      [] tt = "Less"         -> Num(a) * Den(b) < Num(b) * Den(a)
      [] tt = "LessEqual"    -> Num(a) * Den(b) <= Num(b) * Den(a)

\* C9: -, /, *, >, <, >=, <= give a value only when both operands are Number,
\* a Number for the arithmetic operators and a Bool for the comparisons; in
\* every other case they give the diagnostic "Expected number but found <type>"
\* on the operator token, <type> naming the variant of the first operand, left
\* before right, that is not a Number.
C9_NumericOperatorsNeedNumbers ==
    \A n \in EvaluatedNodes :
        BinaryOn(n, {"Minus", "Slash", "Star", "Greater", "Less",
                     "GreaterEqual", "LessEqual"}) =>
            LET l  == ValueOf(n.left)
                r  == ValueOf(n.right)
                tt == n.operator.ttype.tt
            IN  CASE l.t # "Number" ->
                        Fails(n, "Expected number but found " \o VariantName(l))
                  [] r.t # "Number" ->
                        Fails(n, "Expected number but found " \o VariantName(r))
                  [] tt \in {"Minus", "Slash", "Star"} ->
                        /\ evaluate(n).tag = "Ok"
                        /\ ValueOf(n).t = "Number"
                        /\ AllFinite({l.n, r.n}) => Arithmetic(tt, l.n, r.n, ValueOf(n).n)
                  [] OTHER ->
                        /\ evaluate(n).tag = "Ok"
                        /\ ValueOf(n).t = "Bool"
                        /\ AllFinite({l.n, r.n}) =>
                              ValueOf(n).b = Comparison(tt, l.n, r.n)

\* a numeric operator has met two operands that are not Number, of two
\* variants, and the diagnostic names the left one
C9_Witness ==
    /\ pc = "done"
    /\ evaluated.some
    /\ BinaryOn(expr_opt.v, {"Minus", "Slash", "Star", "Greater", "Less",
                             "GreaterEqual", "LessEqual"})
    /\ ValueOf(expr_opt.v.left).t = "String"
    /\ ValueOf(expr_opt.v.right).t = "Nil"
    /\ returned.v = <<Diag(expr_opt.v.operator, "Expected number but found string")>>

\* C10: ! gives the logical negation only when its operand is a Bool and
\* otherwise the diagnostic "Expected bool but found <type>": nil, numbers and
\* strings are not coerced; unary - gives the arithmetic negation only when its
\* operand is a Number and otherwise "Expected number but found <type>".
C10_UnaryOperatorsCheckTheirOperand ==
    \A n \in EvaluatedNodes :
        /\ UnaryOn(n, "Bang") =>
              IF ValueOf(n.right).t = "Bool"
              THEN Gives(n, [t |-> "Bool", b |-> ~ValueOf(n.right).b])
              ELSE Fails(n, "Expected bool but found " \o VariantName(ValueOf(n.right)))
        /\ UnaryOn(n, "Minus") =>
              IF ValueOf(n.right).t = "Number"
              THEN /\ evaluate(n).tag = "Ok"
                   /\ ValueOf(n).t = "Number"
                   /\ ValueOf(n).n.k = ValueOf(n.right).n.k
                   /\ ValueOf(n).n.k = "fin" =>
                         /\ Num(ValueOf(n).n) = -Num(ValueOf(n.right).n)
                         /\ Den(ValueOf(n).n) = Den(ValueOf(n.right).n)
              ELSE Fails(n, "Expected number but found " \o VariantName(ValueOf(n.right)))

\* ! has met nil and run has returned the diagnostic
C10_Witness ==
    /\ pc = "done"
    /\ evaluated.some
    /\ UnaryOn(expr_opt.v, "Bang")
    /\ ValueOf(expr_opt.v.right).t = "Nil"
    /\ returned.v = <<Diag(expr_opt.v.operator, "Expected bool but found nil")>>

\* the node has a value and it is the Number NaN
IsNaN(e) ==
    /\ evaluate(e).tag = "Ok"
    /\ ValueOf(e).t = "Number"
    /\ ValueOf(e).n.k = "nan"

\* C11: a Number divided by a Number is a Number and never a diagnostic,
\* whatever the divisor; 0 / 0 is the Number NaN; NaN == NaN is the Bool false
\* and NaN != NaN the Bool true.
C11_DivisionIsTotalAndNaNUnequal ==
    \A n \in EvaluatedNodes :
        /\ BinaryOn(n, {"Slash"}) /\ ValueOf(n.left).t = "Number"
                                  /\ ValueOf(n.right).t = "Number" =>
              /\ evaluate(n).tag = "Ok"
              /\ ValueOf(n).t = "Number"
              /\ AllFinite({ValueOf(n.left).n, ValueOf(n.right).n})
                    /\ Num(ValueOf(n.left).n) = 0 /\ Num(ValueOf(n.right).n) = 0 =>
                    ValueOf(n).n.k = "nan"
        /\ BinaryOn(n, {"EqualEqual"}) /\ IsNaN(n.left) /\ IsNaN(n.right) =>
              Gives(n, [t |-> "Bool", b |-> FALSE])
        /\ BinaryOn(n, {"BangEqual"}) /\ IsNaN(n.left) /\ IsNaN(n.right) =>
              Gives(n, [t |-> "Bool", b |-> TRUE])

\* 0 / 0 == 0 / 0 has been evaluated: both operands NaN, the result false
C11_Witness ==
    /\ pc = "done"
    /\ evaluated.some
    /\ BinaryOn(expr_opt.v, {"EqualEqual"})
    /\ BinaryOn(expr_opt.v.left, {"Slash"})
    /\ IsNaN(expr_opt.v.left)
    /\ IsNaN(expr_opt.v.right)
    /\ evaluated.v.val = [pr |-> "Val", val |-> [t |-> "Bool", b |-> FALSE]]
    /\ returned.v = << >>

\* C12: report_msg renders a diagnostic with an attached end-of-input token as
\* "at end - <message>", with any other attached token as
\* "at '<lexeme>' - <message>" and with no token as the bare message, and puts
\* "<line>: " in front exactly when the diagnostic has a line number.
C12_ReportMsgRule ==
    rendered.some =>
        LET e    == err.v
            body == CASE ~e.token_option.some -> e.text
                      [] e.token_option.v.ttype = [tt |-> "Eof", s |-> ""] ->
                            "at end - " \o e.text
                      [] OTHER ->
                            "at '" \o e.token_option.v.lexeme \o "' - " \o e.text
        IN  /\ e.line_option.some =>
                  rendered.v = ToString(e.line_option.v) \o ": " \o body
            /\ ~e.line_option.some => rendered.v = body

\* a diagnostic on an end-of-input token has been rendered with its line
C12_Witness ==
    /\ rendered.some
    /\ err.v.token_option.some
    /\ err.v.token_option.v.ttype.tt = "Eof"
    /\ err.v.line_option = [some |-> TRUE, v |-> 2]
    /\ rendered.v = "2: at end - Invalid Token"

\* the cursor positions of the token vector at which a `(` stands
LeftParenAt(toks) == {c \in 0..(Len(toks) - 1) : toks[c + 1].ttype.tt = "LeftParen"}

\* the token vector is ( 1 + 2
OpenOnePlusTwo ==
    /\ Len(tokens) = 5
    /\ [i \in 1..4 |-> tokens[i].ttype] =
          <<TT("LeftParen"), TokenType("Number", "1"), TT("Plus"), TokenType("Number", "2")>>

\* C13: when the token after a parenthesized expression is not `)`, primary
\* adds exactly one diagnostic to those of the inner expression, leaves the
\* cursor on that token and returns the Grouping node of the inner expression,
\* and the parse goes on to its end; for ( 1 + 2 the parse ends with a list of
\* exactly one diagnostic, the cursor on Eof and no AST.
C13_MissingParenOneDiagnostic ==
    /\ \A c \in LeftParenAt(tokens) :
          LET inner == expression(tokens, c + 1, << >>)
              group == primary(tokens, c, << >>)
          IN  tokens[inner.current + 1].ttype.tt # "RightParen" =>
                  /\ Len(group.errors) = Len(inner.errors) + 1
                  /\ SubSeq(group.errors, 1, Len(inner.errors)) = inner.errors
                  /\ group.errors[Len(group.errors)].text = "Expect ')' after expression."
                  /\ group.current = inner.current
                  /\ group.expr = [node |-> "grouping", expression |-> inner.expr]
    /\ ParseFinished /\ OpenOnePlusTwo =>
          /\ Len(errors) = 1
          /\ current = 4
          /\ expr_opt = [some |-> FALSE]
          /\ interpreted = 0
          /\ pc = "done" => returned = [some |-> TRUE, v |-> errors]

\* ( 1 + 2 has been parsed: one diagnostic, no AST
C13_Witness ==
    /\ pc = "done"
    /\ OpenOnePlusTwo
    /\ Len(errors) = 1
    /\ errors[1].text = "Expect ')' after expression."
    /\ ~expr_opt.some

\* the diagnostics of the parser's list recorded for a missing `)`
MissingParenDiagnostics ==
    {errors[i] : i \in {j \in 1..Len(errors) : errors[j].text = "Expect ')' after expression."}}

\* C14: the diagnostic for a missing closing parenthesis is recorded against
\* the current token: its token field holds a token of the input, the one at
\* the cursor, and it renders as "<line>: at '<lexeme>' - Expect ')' after
\* expression." or, on the end-of-input token, as "<line>: at end - Expect ')'
\* after expression."; for ( 1 + 2 the token is the Eof token.
C14_MissingParenCarriesToken ==
    ParseFinished =>
        /\ \A e \in MissingParenDiagnostics :
              /\ e.token_option.some
              /\ \E i \in 1..Len(tokens) :
                    /\ e.token_option.v = tokens[i]
                    /\ report_msg(e) =
                          ToString(tokens[i].line) \o ": "
                              \o (IF tokens[i].ttype.tt = "Eof"
                                  THEN "at end"
                                  ELSE "at '" \o tokens[i].lexeme \o "'")
                              \o " - Expect ')' after expression."
        /\ OpenOnePlusTwo =>
              /\ errors[1].token_option = [some |-> TRUE, v |-> tokens[5]]
              /\ report_msg(errors[1]) = "4: at end - Expect ')' after expression."

\* the cursor positions at which neither a literal nor a `(` stands
NoPrimaryAt(toks) ==
    {c \in 0..(Len(toks) - 1) :
        toks[c + 1].ttype.tt \notin LevelOps(6) \cup {"LeftParen"}}

\* C15: entered on a token that is neither a literal nor `(`, the end-of-input
\* token included, primary appends exactly one diagnostic, which carries that
\* token, leaves the cursor where it is and returns a placeholder Literal
\* node; the rules that called it return, and a parse that enters primary
\* on such a token first ends with that diagnostic first in its list and no
\* AST.
C15_UnknownPrimaryOneDiagnostic ==
    /\ \A c \in NoPrimaryAt(tokens) :
          \A before \in {<< >>, <<Diag(tokens[1], "Mismatched types")>>} :
              primary(tokens, c, before) =
                  [expr    |-> [node |-> "literal", value |-> [tt |-> "Eof", s |-> ""]],
                   current |-> c,
                   errors  |-> before \o <<Diag(tokens[c + 1], "Invalid Token")>>]
    /\ ParseFinished /\ 0 \in NoPrimaryAt(tokens)
                     /\ tokens[1].ttype.tt \notin LevelOps(5) =>
          /\ Len(errors) >= 1
          /\ errors[1] = Diag(tokens[1], "Invalid Token")
          /\ expr_opt = [some |-> FALSE]

\* the parse of an empty program has ended on the Eof token it started on
C15_Witness ==
    /\ pc = "done"
    /\ Len(tokens) = 1
    /\ tokens[1].ttype.tt = "Eof"
    /\ current = 0
    /\ errors = <<Diag(tokens[1], "Invalid Token")>>
    /\ returned = [some |-> TRUE, v |-> errors]

\* the number of `(` among the first i tokens that no later `)` of them closes
RECURSIVE OpenAfter(_, _)
OpenAfter(toks, i) ==
    IF i = 0 THEN 0
    ELSE CASE toks[i].ttype.tt = "LeftParen"  -> OpenAfter(toks, i - 1) + 1
           [] toks[i].ttype.tt = "RightParen" ->
                 IF OpenAfter(toks, i - 1) > 0 THEN OpenAfter(toks, i - 1) - 1 ELSE 0
           [] OTHER -> OpenAfter(toks, i - 1)

\* the token vector holds exactly two `(` without a matching `)`
TwoUnmatchedParens(toks) == OpenAfter(toks, Len(toks)) = 2

\* C16: the diagnostics of one parse accumulate: for every token sequence with
\* two `(` that each lack a matching `)`, the parse ends with the diagnostics
\* of both in its list, which is of length two when the parse recorded
\* nothing else.
C16_TwoUnmatchedParensTwoDiagnostics ==
    ParseFinished /\ TwoUnmatchedParens(tokens) =>
        /\ Cardinality({i \in 1..Len(errors) :
                            errors[i].text = "Expect ')' after expression."}) = 2
        /\ (\A i \in 1..Len(errors) : errors[i].text = "Expect ')' after expression.")
              => Len(errors) = 2

\* the items the first n calls added, in call order, an appended list's items
\* in their own order
RECURSIVE ItemsAdded(_, _)
ItemsAdded(cs, n) ==
    IF n = 0 THEN << >>
    ELSE ItemsAdded(cs, n - 1)
            \o (IF cs[n].op = "push" THEN <<cs[n].arg>> ELSE cs[n].arg)

\* the number of items the first n calls added
RECURSIVE CountAdded(_, _)
CountAdded(cs, n) ==
    IF n = 0 THEN 0
    ELSE CountAdded(cs, n - 1) + (IF cs[n].op = "push" THEN 1 ELSE Len(cs[n].arg))

\* C17: a LoxErrorList is append-only and keeps order: after any sequence of
\* push and append calls it holds the pushed diagnostics and the items of the
\* appended lists in call order, len is the number of items added, and every
\* call leaves the items already there in place, in front of those it adds.
C17_ListAppendOnly ==
    /\ [](/\ list = ItemsAdded(calls, Len(calls))
          /\ len(list) = CountAdded(calls, Len(calls)))
    /\ [][/\ Len(list') >= Len(list)
          /\ SubSeq(list', 1, Len(list)) = list]_vars

\* a push, then an append of two items, then a push: four items in call order
C17_Witness ==
    /\ Len(calls) = 3
    /\ calls[1].op = "push"
    /\ calls[2].op = "append"
    /\ Len(calls[2].arg) = 2
    /\ calls[2].arg[1] # calls[2].arg[2]
    /\ calls[3].op = "push"
    /\ list = <<calls[1].arg>> \o calls[2].arg \o <<calls[3].arg>>

\* every literal of the tree is a Number
OnlyNumbers(e) ==
    \A n \in Nodes(e) : n.node = "literal" => n.value.tt = "Number"

\* the decimal form of a number text: no leading or trailing zeros, no point
\* without digits behind it
NaturalDecimal(text) ==
    CASE text = "1.0" -> "1"
      [] OTHER        -> text

\* the rendering of a tree of Number literals
RECURSIVE Rendering(_)
Rendering(e) ==
    CASE e.node = "binary" ->
            "(" \o e.operator.lexeme \o " " \o Rendering(e.left) \o " "
                \o Rendering(e.right) \o ")"
      [] e.node = "unary" ->
            "(" \o e.operator.lexeme \o " " \o Rendering(e.right) \o ")"
      [] e.node = "grouping" -> "(group " \o Rendering(e.expression) \o ")"
      [] OTHER -> NaturalDecimal(e.value.s)

\* the token vector is - 1 * ( 2 )
MinusOneTimesGroupTwo ==
    /\ Len(tokens) = 7
    /\ [i \in 1..6 |-> tokens[i].ttype] =
          <<TT("Minus"), TokenType("Number", "1"), TT("Star"), TT("LeftParen"),
            TokenType("Number", "2"), TT("RightParen")>>

OutputAlone(line) ==
    LET Out(p) ==
            IF p.ret.some
            THEN <<pretty_print_value(p.ret.v)>> \o report_lines(interpret(p.ret.v).val)
            ELSE report_lines(p.errors)
    IN  Out(parse(line, 0, << >>))

\* what the first n reads of a stream put on the console, each for itself
RECURSIVE ConsoleAfter(_, _)
ConsoleAfter(reads, n) ==
    IF n = 0 THEN <<"^c to end...\n">>
    ELSE ConsoleAfter(reads, n - 1)
            \o (IF reads[n].flush_ok THEN <<"> ">>
                ELSE <<"> ", "Flushing problem: \"Broken pipe (os error 32)\"">>)
            \o CASE reads[n].k = "line" -> OutputAlone(reads[n].tokens)
                 [] reads[n].k = "err"  ->
                       <<"Input problem: \"stream did not contain valid UTF-8\"">>
                 [] OTHER -> << >>

\* the lines among the first n reads of a stream, in order
RECURSIVE LinesAmong(_, _)
LinesAmong(reads, n) ==
    IF n = 0 THEN << >>
    ELSE LinesAmong(reads, n - 1)
            \o (IF reads[n].k = "line" THEN <<reads[n].tokens>> ELSE << >>)

\* the number of reads made so far
ReadsMade == Len(input) - Len(stdin)

\* C19: run_prompt hands each line read to run exactly once and in input
\* order; a line whose run returns diagnostics and a failed read are reported
\* and the loop reads on; what a line puts on the console is what its run
\* alone puts there, whatever came before; the loop stops only on the read
\* that reports end-of-input, and it gets there.
C19_PromptRunsEveryLineOnce ==
    /\ [](/\ ran = LinesAmong(input, ReadsMade)
          /\ prompt_pc \in {"read", "stopped"} =>
                console = ConsoleAfter(input, ReadsMade)
          /\ prompt_pc = "stopped" => ReadsMade = Len(input))
    /\ [][prompt_pc' = "stopped" /\ prompt_pc # "stopped" =>
              Head(stdin).k = "eof"]_vars
    /\ <>(prompt_pc = "stopped")

\* the loop has stopped after a line with a diagnostic, a failed read and
\* a line with a value, all three reported in order
C19_Witness ==
    /\ prompt_pc = "stopped"
    /\ Len(input) = 4
    /\ input[1].k = "line"
    /\ OutputAlone(input[1].tokens) = <<"(+ 1 \"a\")", "1: at '+' - Mismatched types">>
    /\ input[2].k = "err"
    /\ input[3].k = "line"
    /\ Len(ran) = 2
    /\ console = ConsoleAfter(input, 4)

\* the operator kinds and literal payload kinds the evaluator has an arm for
EvaluatorUnaryKinds == {"Bang", "Minus"}

EvaluatorBinaryKinds ==
    {"Minus", "Plus", "Slash", "Star", "Greater", "GreaterEqual",
     "Less", "LessEqual", "EqualEqual", "BangEqual"}

EvaluatorLiteralKinds == {"Number", "String", "True", "False", "Nil"}

\* C20: an AST that Parser::parse returns comes with an empty diagnostic
\* list and holds only unary operators ! and -, only the ten binary
\* operators and only literal payloads Number, String, true, false and nil;
\* so neither run nor the evaluation of the tree reaches a panic branch.
C20_ReturnedAstHasOnlyKnownNodes ==
    /\ expr_opt.some =>
          /\ len(errors) = 0
          /\ \A n \in Nodes(expr_opt.v) :
                /\ n.node \in {"unary", "binary", "grouping", "literal"}
                /\ n.node = "unary" => n.operator.ttype.tt \in EvaluatorUnaryKinds
                /\ n.node = "binary" => n.operator.ttype.tt \in EvaluatorBinaryKinds
                /\ n.node = "literal" => n.value.tt \in EvaluatorLiteralKinds
    /\ pc # "panic"
    /\ evaluated.some => evaluated.v.tag # "Panic"

\* run has evaluated a returned tree that has a unary, a binary, a grouping
\* and a literal node
C20_Witness ==
    /\ pc = "done"
    /\ expr_opt.some
    /\ evaluated.some
    /\ \A k \in {"unary", "binary", "grouping", "literal"} :
          \E n \in Nodes(expr_opt.v) : n.node = k

\* the kinds of the keywords that start a statement
StatementStarts == {"Class", "Fun", "Var", "For", "If", "While", "Print", "Return"}

\* cursor c is where a statement ends or starts: on Eof, right after a
\* semicolon, or on a statement-starting keyword
Boundary(c) ==
    \/ tokens[c + 1].ttype.tt = "Eof"
    \/ c >= 1 /\ tokens[c].ttype.tt = "Semicolon"
    \/ tokens[c + 1].ttype.tt \in StatementStarts

\* C21: synchronize moves the cursor on by at least one token unless it
\* starts on Eof, where it leaves it; when it returns the cursor is on Eof,
\* or right after a semicolon, or on a statement-starting keyword, and it
\* has passed no such place after the token it started on; the cursor
\* moves one token at a time and never back.
C21_SynchronizeStopsAtFirstBoundary ==
    /\ [](pc = "returned" =>
            /\ tokens[entered.v + 1].ttype.tt # "Eof" => current >= entered.v + 1
            /\ tokens[entered.v + 1].ttype.tt = "Eof" => current = entered.v
            /\ Boundary(current)
            /\ \A c \in (entered.v + 1)..(current - 1) : ~Boundary(c))
    /\ [][current' \in {current, current + 1}]_vars

\* synchronize has returned on a print keyword after passing two tokens
C21_Witness ==
    /\ pc = "returned"
    /\ current = entered.v + 2
    /\ tokens[current + 1].ttype.tt = "Print"
    /\ tokens[current].ttype.tt # "Semicolon"

\* C22: in a token vector that ends with Eof the cursor of a parser method
\* stays inside the vector and at or before the first Eof, where advance
\* leaves it; no method and no grammar rule moves it back or past the first
\* Eof; and a hit of match_one_of, after which the rules evaluate
\* previous(), leaves the cursor at 1 or more, as does an advance that moves.
C22_CursorStaysInBounds ==
    /\ [](/\ 0 <= current
          /\ current <= FirstEof(tokens)
          /\ current < Len(tokens)
          /\ entered.v <= current
          /\ advance(tokens, current) \in {current, current + 1}
          /\ advance(tokens, current) <= FirstEof(tokens)
          /\ current = FirstEof(tokens) => advance(tokens, current) = current
          /\ advance(tokens, current) # current => advance(tokens, current) >= 1
          /\ \A tts \in MatchLists :
                /\ match_one_of(tokens, current, tts).current <= FirstEof(tokens)
                /\ match_one_of(tokens, current, tts).ret =>
                      match_one_of(tokens, current, tts).current >= 1
          /\ pc = "call" =>
                LET Within(r) == current <= r.current /\ r.current <= FirstEof(tokens)
                IN  /\ Within(equality(tokens, current, errors))
                    /\ Within(comparison(tokens, current, errors))
                    /\ Within(term(tokens, current, errors))
                    /\ Within(factor(tokens, current, errors))
                    /\ Within(consume(tokens, current, errors, "RightParen", "")))
    /\ [][current' >= current]_vars

\* primary has returned from a cursor past 0 with the cursor on the first
\* Eof, which is not the last token of the vector
C22_Witness ==
    /\ pc = "returned"
    /\ entered.v >= 1
    /\ current > entered.v
    /\ current = FirstEof(tokens)
    /\ FirstEof(tokens) < Len(tokens) - 1
    /\ expr_opt.some

\* the token-type lists whose hit is followed by another rule call: the
\* four operator loops, unary's prefix operators and primary's parenthesis
ReentryLists ==
    {<<"BangEqual", "EqualEqual">>,
     <<"Greater", "GreaterEqual", "Less", "LessEqual">>,
     <<"Minus", "Plus">>,
     <<"Slash", "Star">>,
     <<"Bang", "Minus">>,
     <<"LeftParen">>}

\* the number of nodes of a tree
RECURSIVE NodeCount(_)
NodeCount(e) ==
    1 + CASE e.node = "binary"   -> NodeCount(e.left) + NodeCount(e.right)
          [] e.node = "grouping" -> NodeCount(e.expression)
          [] e.node = "unary"    -> NodeCount(e.right)
          [] OTHER               -> 0

\* C23: every call of a parser method returns, on malformed token vectors
\* too.  A hit that is followed by another rule call (an operator loop's
\* iteration, unary from unary, expression from primary) has moved the
\* cursor on by at least one token, and a miss has left it; primary on a
\* token it does not know and consume on a token that is not the expected
\* one return with the cursor where it was and one more diagnostic; and the
\* tree a rule returns has at most one node per token consumed and per
\* diagnostic recorded.
C23_ParseTerminates ==
    /\ [](pc = "call" =>
            /\ \A tts \in ReentryLists :
                  LET Moves(m) == IF m.ret THEN m.current > current
                                           ELSE m.current = current
                  IN  Moves(match_one_of(tokens, current, tts))
            /\ tokens[current + 1].ttype.tt \notin
                    {"False", "True", "Nil", "Number", "String", "LeftParen"} =>
                  LET Stays(r) == r.current = current /\ Len(r.errors) = 1
                  IN  Stays(primary(tokens, current, errors))
            /\ tokens[current + 1].ttype.tt # "RightParen" =>
                  LET Stays(r) == r.current = current /\ Len(r.errors) = 1
                  IN  Stays(consume(tokens, current, errors, "RightParen",
                                    "Expect ')' after expression.")))
    /\ [](pc = "returned" /\ expr_opt.some =>
            NodeCount(expr_opt.v) <= (current - entered.v) + Len(errors))
    /\ <>(pc = "returned")

\* a rule has returned from a malformed vector: a grouping without its
\* closing parenthesis around a binary node whose left operand is missing
C23_Witness ==
    /\ pc = "returned"
    /\ expr_opt.some
    /\ Len(errors) = 2
    /\ expr_opt.v.node = "grouping"
    /\ expr_opt.v.expression.node = "binary"
    /\ expr_opt.v.expression.left = literal_new(TT("Eof"))
    /\ current = entered.v + 3

\* C24: on every ASCII text, texts with unexpected characters and with an
\* unterminated string included, scan_tokens comes to its end; the token
\* list it leaves has Eof as its last element and nowhere else; every pass
\* of its loop moves the position on by at least one character and never
\* past the end of the text; no token but the last is an Eof at any time.
C24_ScanEndsWithOneEof ==
    /\ [](/\ 0 <= scurrent
          /\ scurrent <= Len(source)
          /\ scanner_pc = "scan" => \A i \in 1..Len(stokens) : stokens[i].ttype.tt # "Eof"
          /\ scanner_pc = "done" =>
                /\ scurrent = Len(source)
                /\ Len(stokens) >= 1
                /\ stokens[Len(stokens)].ttype = TT("Eof")
                /\ \A i \in 1..(Len(stokens) - 1) : stokens[i].ttype.tt # "Eof")
    /\ [][scanner_pc' = "scan" => scurrent' >= scurrent + 1]_vars
    /\ <>(scanner_pc = "done")

\* scan_tokens has ended on a text with an unterminated string after an
\* unexpected character: two diagnostics, and Eof the only token
C24_Witness ==
    /\ scanner_pc = "done"
    /\ Len(source) = 3
    /\ source[1] = "a"
    /\ source[2] = "\""
    /\ Len(serrors) = 2
    /\ stokens = <<Token_new(TT("Eof"), "", 1)>>

====
